---------------------------- MODULE Spec2Model ----------------------------
(***************************************************************************)
(* AgentG server (src/server.js): the remote-debugging session manager.    *)
(*                                                                         *)
(*   SpecConn  one debugger transport as built by connectCDP: the call()   *)
(*             correlation of requests and responses by id, the per-call   *)
(*             timers, and the execution-context registry kept by the      *)
(*             'message' listener.                                        *)
(*   SpecDisc  discoverCDP: the concurrent probes of PORTS and the         *)
(*             priority-ordered selection.                                 *)
(*   Spec      the session manager: initCDP, the setInterval polling       *)
(*             ticks of startPolling, captureSnapshot and POST /instance,  *)
(*             interleaved at their await points.                          *)
(***************************************************************************)
EXTENDS Integers, Sequences, FiniteSets, TLC

VARIABLES
    \* ---- one transport (connectCDP closure state) ----
    idCounter,        \* let idCounter = 1
    calls,            \* the call() invocations made so far, in order
    contexts,         \* let contexts = []
    regModel,         \* history: the context set by the three registry rules
    lastReg,          \* history: what the last inbound message did to the registry
    sweep,            \* a caller iterating over the array getContexts() returned
    attempt,          \* the connectCDP activation that builds the transport
    \* ---- discoverCDP ----
    probeResp,        \* what each endpoint answered (or "pending")
    results,          \* the Promise.all result array, by PORTS index
    firstArrived,     \* history: index of the first probe that completed with a match
    discovered,       \* discoverCDP's outcome
    allTargets,       \* discoverAllTargets' outcome
    \* ---- session manager (module-level state of server.js) ----
    sockets,          \* every WebSocket made by connectCDP: target and readyState
    socketsLeft,      \* how many more WebSockets the run may make (model bound)
    cdpConnection,    \* the active session: index into sockets, 0 for null
    activeTargetId,
    lastSnapshot,
    lastSnapshotHash,
    discoveredInstances,
    cdpRetryCount,
    snapshotFailCount,
    polling,          \* startPolling has installed the interval
    procs,            \* the async activations in flight, at their await points
    sent,             \* the last step broadcast a change event to the clients
    httpStatus,       \* the status the last step answered a POST /instance
                      \* with, 0 if it answered none
    clients,          \* wss.clients: the readyState of each browser client
    delivered,        \* the client.send calls of the last step
    \* ---- history ----
    installed,        \* sockets that have been stored into cdpConnection
    retired,          \* sessions replaced by a POST /instance that has returned
    switched,         \* the session installed by the last completed POST /instance
                      \* that replaced a connected session; 0 once another switch
                      \* began or a tick discarded the session
    lastFrom,         \* the socket lastSnapshot was captured on, 0 if none
    consecFails,      \* failed captures since the last success or counter reset
    lastTick,         \* the capture tick the last step completed, if it did
    \* ---- outside the session manager ----
    cleaner,          \* utils/cache-manager.js: one cleanupOldFiles run
    popup,            \* public/js/actionManager.js: the browser client's popups
    wsman,            \* the browser client's WebSocketManager
    available         \* the targets the debugging endpoints report right now

connVars == <<idCounter, calls, contexts, regModel, lastReg, sweep, attempt>>
discVars == <<probeResp, results, firstArrived, discovered, allTargets>>
sessVars == <<sockets, socketsLeft, cdpConnection, activeTargetId, lastSnapshot, lastSnapshotHash,
              discoveredInstances, cdpRetryCount, snapshotFailCount, polling, procs,
              sent, httpStatus, clients, delivered, installed, retired, switched,
              lastFrom, consecFails, lastTick>>
otherVars == <<cleaner, popup, wsman, available>>
vars == <<connVars, discVars, sessVars, otherVars>>

None == "none"

Min(a, b) == IF a < b THEN a ELSE b

(***************************************************************************)
(* Bounds of the model.                                                    *)
(***************************************************************************)
MaxCalls == 2          \* call() invocations on the transport
MaxCtxId == 2          \* execution context ids 1..MaxCtxId

(***************************************************************************)
(*                  RPC transport: connectCDP.call                         *)
(***************************************************************************)
CtxNames == {"top", "webview"}
Ctxs == [id : 1..MaxCtxId, name : CtxNames]
NoCtx == [id |-> 0, name |-> None]

\* Inbound wire messages after JSON.parse.  A field the message does not
\* carry is 0 (id, ctxId) or None.
Responses ==
    [id : 1..MaxCalls, method : {None}, result : {"r1", "r2"}, error : {None},
     ctx : {NoCtx}, ctxId : {0}]
    \cup
    [id : 1..MaxCalls, method : {None}, result : {None}, error : {"e1"},
     ctx : {NoCtx}, ctxId : {0}]
Events ==
    [id : {0}, method : {"Runtime.executionContextCreated"}, result : {None},
     error : {None}, ctx : Ctxs, ctxId : {0}]
    \cup
    [id : {0}, method : {"Runtime.executionContextDestroyed"}, result : {None},
     error : {None}, ctx : {NoCtx}, ctxId : 1..MaxCtxId]
    \cup
    [id : {0}, method : {"Runtime.executionContextsCleared", "Page.frameNavigated"},
     result : {None}, error : {None}, ctx : {NoCtx}, ctxId : {0}]
Messages == Responses \cup Events

\* const id = idCounter++  (the value the counter has after the call)
NextIdStale(c) == c
NextId(c) == c + 1

\* A PendingCall as call() creates it: handler registered with
\* ws.on('message'), timer armed with setTimeout, promise unsettled.
\* History fields: settles counts the invocations of resolve/reject and
\* responses the inbound messages that carried the call's id (both stop
\* counting at 2); answer is the result or error of the first of those.
NewCall(id) ==
    [id |-> id, state |-> "pending", value |-> None,
     handler |-> TRUE, timer |-> TRUE, settles |-> 0, responses |-> 0,
     answer |-> None]

\* resolve(v) / reject(e) on the call's promise: only the first one settles it.
Settle(c, st, v) ==
    [c EXCEPT !.state = IF c.state = "pending" THEN st ELSE @,
              !.value = IF c.state = "pending" THEN v ELSE @,
              !.settles = Min(@ + 1, 2)]

\* handler(msg) of one call.
HandlerNoIdCheck(c, data) ==
    LET d == [c EXCEPT !.timer = FALSE, !.handler = FALSE]
    IN  IF data.error # None THEN Settle(d, "rejected", data.error)
                             ELSE Settle(d, "resolved", data.result)
HandlerAnyResponse(c, data) ==
    IF data.id # 0
    THEN LET d == [c EXCEPT !.timer = FALSE, !.handler = FALSE]
         IN  IF data.error # None THEN Settle(d, "rejected", data.error)
                                  ELSE Settle(d, "resolved", data.result)
    ELSE c
Handler(c, data) ==
    IF data.id = c.id
    THEN LET d == [c EXCEPT !.timer = FALSE, !.handler = FALSE]
         IN  IF data.error # None THEN Settle(d, "rejected", data.error)
                                  ELSE Settle(d, "resolved", data.result)
    ELSE c

\* the setTimeout callback of one call.
OnTimeoutKeepsHandler(c) ==
    Settle([c EXCEPT !.timer = FALSE], "rejected", "timeout")
OnTimeout(c) ==
    Settle([c EXCEPT !.timer = FALSE, !.handler = FALSE], "rejected", "timeout")

(***************************************************************************)
(*        Execution context registry: the connectCDP message listener      *)
(***************************************************************************)
HasId(cs, id) == \E i \in DOMAIN cs : cs[i].id = id

RECURSIVE Filter(_, _)
\* contexts.filter(c => c.id !== id)
Filter(cs, id) ==
    IF cs = <<>> THEN <<>>
    ELSE IF Head(cs).id # id THEN <<Head(cs)>> \o Filter(Tail(cs), id)
         ELSE Filter(Tail(cs), id)

ListenerNoDedup(cs, data) ==
    IF data.method = "Runtime.executionContextCreated" THEN Append(cs, data.ctx)
    ELSE IF data.method = "Runtime.executionContextDestroyed" THEN Filter(cs, data.ctxId)
    ELSE IF data.method = "Runtime.executionContextsCleared" THEN <<>>
    ELSE cs
Listener(cs, data) ==
    IF data.method = "Runtime.executionContextCreated"
    THEN IF ~HasId(cs, data.ctx.id) THEN Append(cs, data.ctx) ELSE cs
    ELSE IF data.method = "Runtime.executionContextDestroyed" THEN Filter(cs, data.ctxId)
    ELSE IF data.method = "Runtime.executionContextsCleared" THEN <<>>
    ELSE cs

\* The three registry rules of the data model, on a set of contexts.
RuleApply(S, data) ==
    IF data.method = "Runtime.executionContextCreated"
    THEN IF \E c \in S : c.id = data.ctx.id THEN S ELSE S \cup {data.ctx}
    ELSE IF data.method = "Runtime.executionContextDestroyed"
    THEN {c \in S : c.id # data.ctxId}
    ELSE IF data.method = "Runtime.executionContextsCleared" THEN {}
    ELSE S

\* What a message does to the registry (history only).
RegEffect(cs, data) ==
    IF data.method = "Runtime.executionContextCreated"
    THEN IF HasId(cs, data.ctx.id) THEN "duplicate" ELSE "added"
    ELSE IF data.method = "Runtime.executionContextDestroyed"
    THEN IF HasId(cs, data.ctxId) THEN "removed" ELSE "absent"
    ELSE IF data.method = "Runtime.executionContextsCleared" THEN "cleared"
    ELSE IF data.id = 0 THEN "unrelated" ELSE "response"

\* History: one more inbound message carried the id of call c.
Heard(c, data) ==
    IF data.id = c.id
    THEN [c EXCEPT !.responses = Min(@ + 1, 2),
                   !.answer = IF c.responses > 0 THEN @
                              ELSE IF data.error # None THEN data.error
                              ELSE data.result]
    ELSE c

\* ---- a caller of getContexts() ----
\* getContexts() returns the contexts array itself (line 216), and the
\* caller iterates over it with for...of across awaits (captureSnapshot lines
\* 328-334), reading the array's length anew at every step.
\*   active: a sweep is in progress
\*   live:   the caller's array is still the one the registry variable holds
\*   seen:   the contents of the caller's array now
\*   taken:  history, its contents when getContexts() returned it
\*   next:   index of the entry whose loop body is running (awaiting)
Sweep(active, live, seen, taken, next) ==
    [active |-> active, live |-> live, seen |-> seen, taken |-> taken,
     next |-> next]
NoSweep == Sweep(FALSE, FALSE, <<>>, <<>>, 1)

\* Whether the listener leaves the registry variable bound to the same array:
\* push works in place; filter and [] make a new array.
SameArray(data) ==
    data.method \notin {"Runtime.executionContextDestroyed",
                        "Runtime.executionContextsCleared"}

\* The caller's view after the listener has handled data.
SweepAfter(sw, cs, data) ==
    IF sw.active /\ sw.live
    THEN [sw EXCEPT !.live = SameArray(data),
                    !.seen = IF SameArray(data) THEN Listener(cs, data) ELSE @]
    ELSE sw

\* ---- connectCDP(url) as one activation ----
\*   pc:        none       no activation is modelled
\*              c_open     awaiting 'open' / 'error' (lines 151-154)
\*              c_enable   awaiting the first Runtime.enable (line 199)
\*              c_disable  awaiting Runtime.disable (line 205)
\*              c_reenable awaiting the second Runtime.enable (line 206)
\*              c_wait     awaiting a 500 ms delay of the context wait (212)
\*              ready      returned {ws, call, getContexts}
\*              failed     rejected
\*   waitCount: let waitCount = 0
\*   methods:   history, the methods of the calls made, in order
Attempt(pc, waitCount, methods) ==
    [pc |-> pc, waitCount |-> waitCount, methods |-> methods]
NoAttempt == Attempt("none", 0, <<>>)

(***************************************************************************)
(* Actions of one open transport.                                          *)
(***************************************************************************)
\* call(method, params): allocate the id, register handler and timer, send.
Call ==
    /\ Len(calls) < MaxCalls
    /\ calls' = Append(calls, NewCall(idCounter))
    /\ idCounter' = NextId(idCounter)
    /\ UNCHANGED <<contexts, regModel, lastReg, sweep, attempt, discVars, otherVars,
                   sessVars>>

\* ws emits 'message': every registered call handler and the registry
\* listener run on it.
Receive(data) ==
    /\ calls' = [i \in DOMAIN calls |->
                   Heard(IF calls[i].handler THEN Handler(calls[i], data)
                                             ELSE calls[i], data)]
    /\ contexts' = Listener(contexts, data)
    /\ regModel' = RuleApply(regModel, data)
    /\ lastReg' = RegEffect(contexts, data)
    /\ sweep' = SweepAfter(sweep, contexts, data)
    /\ UNCHANGED <<idCounter, attempt, discVars, otherVars, sessVars>>

\* the timer of call number i fires.
Timeout(i) ==
    /\ calls[i].timer
    /\ calls' = [calls EXCEPT ![i] = OnTimeout(calls[i])]
    /\ UNCHANGED <<idCounter, contexts, regModel, lastReg, sweep, attempt,
                   discVars, otherVars, sessVars>>

\* const contexts = cdp.getContexts(), and the loop enters the body of the
\* first entry.  (Over an empty array the loop ends at once, without an
\* await.)
GetContexts ==
    /\ ~sweep.active
    /\ contexts # <<>>
    /\ sweep' = Sweep(TRUE, TRUE, contexts, contexts, 1)
    /\ UNCHANGED <<idCounter, calls, contexts, regModel, lastReg, attempt,
                   discVars, otherVars, sessVars>>

\* The body of the current entry has finished its awaits: the loop moves on
\* to the next entry of the array, or ends when there is none.
SweepStep ==
    /\ sweep.active
    /\ sweep' = IF sweep.next < Len(sweep.seen)
                 THEN [sweep EXCEPT !.next = @ + 1]
                 ELSE NoSweep
    /\ UNCHANGED <<idCounter, calls, contexts, regModel, lastReg, attempt,
                   discVars, otherVars, sessVars>>

\* ---- the transport as the active session ----
\* The object connectCDP returned is stored into cdpConnection (initCDP line
\* 1401, POST /instance line 1775); in SpecConn 1 names this transport.
StoreSession ==
    /\ cdpConnection = 0
    /\ cdpConnection' = 1
    /\ UNCHANGED <<sockets, socketsLeft, activeTargetId, lastSnapshot,
                   lastSnapshotHash, discoveredInstances, cdpRetryCount,
                   snapshotFailCount, polling, procs, sent, httpStatus, clients,
                   delivered, installed, retired, switched, lastFrom, consecFails,
                   lastTick, connVars, discVars, otherVars>>

\* cdpConnection = null (threshold teardown line 1471, POST /instance line
\* 1769).  The transport's listeners stay registered.
DropSession ==
    /\ cdpConnection # 0
    /\ cdpConnection' = 0
    /\ UNCHANGED <<sockets, socketsLeft, activeTargetId, lastSnapshot,
                   lastSnapshotHash, discoveredInstances, cdpRetryCount,
                   snapshotFailCount, polling, procs, sent, httpStatus, clients,
                   delivered, installed, retired, switched, lastFrom, consecFails,
                   lastTick, connVars, discVars, otherVars>>

\* getCDPStatus(), for the transport of SpecConn:
\*   contextCount: cdpConnection?.getContexts().length || 0
getCDPStatusNoGuard ==
    [connected |-> cdpConnection # 0,
     contextCount |-> Len(contexts),
     retryCount |-> cdpRetryCount]
getCDPStatus ==
    [connected |-> cdpConnection # 0,
     contextCount |-> IF cdpConnection = 0 THEN 0 ELSE Len(contexts),
     retryCount |-> cdpRetryCount]

(***************************************************************************)
(*                    Target discovery: discoverCDP                        *)
(***************************************************************************)
PORTS == <<9000, 9001, 9222, 9002, 9003>>
PortIdx == DOMAIN PORTS

\* One entry of an endpoint's /json/list answer.  app: the url contains
\* 'workbench.html' or the title contains 'Antigravity'; worker: the type is
\* 'worker'; ws: webSocketDebuggerUrl is present.
Page(id, app, worker, ws) == [id |-> id, app |-> app, worker |-> worker, ws |-> ws]
NoPage == Page(0, FALSE, FALSE, FALSE)

\* getJson's outcome for one endpoint: not settled yet, a rejection
\* (connection error, timeout, bad JSON) or a target list.
Answer(state, list) == [state |-> state, list |-> list]
PendingAnswer == Answer("pending", <<>>)
ProbeAnswers(i) ==
    { Answer("err", <<>>),
      Answer("ok", <<>>),
      Answer("ok", << Page(10 * i + 1, TRUE, FALSE, TRUE) >>),
      Answer("ok", << Page(10 * i + 1, TRUE, FALSE, FALSE),
                      Page(10 * i + 2, TRUE, FALSE, TRUE) >>),
      Answer("ok", << Page(10 * i + 1, TRUE, TRUE, TRUE),
                      Page(10 * i + 2, TRUE, FALSE, TRUE) >>) }

RECURSIVE FindPage(_)
\* list.find(t => (url/title matches) && t.type !== 'worker'), or NoPage
FindPage(list) ==
    IF list = <<>> THEN NoPage
    ELSE IF Head(list).app /\ ~Head(list).worker THEN Head(list)
         ELSE FindPage(Tail(list))

\* A probe's result: a match {port, id} or null.
Match(port, id) == [port |-> port, id |-> id]
NullMatch == Match(0, 0)

\* checkPort(port) of discoverCDP, given getJson's outcome.
checkPort(port, answer) ==
    IF answer.state # "ok" THEN NullMatch
    ELSE LET found == FindPage(answer.list)
         IN  IF found # NoPage /\ found.ws THEN Match(port, found.id)
             ELSE NullMatch

\* discoverCDP's outcome: still running, a match, or the thrown
\* 'CDP not found' error.
Running == [status |-> "running", match |-> NullMatch]
Found(m) == [status |-> "found", match |-> m]
NotFound == [status |-> "notfound", match |-> NullMatch]

\* results.find(r => r !== null), then return the match or throw.
FindByArrival(rs) ==
    IF firstArrived = 0 THEN NotFound ELSE Found(rs[firstArrived])
FindMatch(rs) ==
    LET M == {i \in DOMAIN rs : rs[i] # NullMatch}
    IN  IF M = {} THEN NotFound
        ELSE Found(rs[CHOOSE i \in M : \A j \in M : i <= j])

\* One probe settles; the probes settle in any order.
ProbeDone(i, answer) ==
    /\ probeResp # <<>>
    /\ probeResp[i] = PendingAnswer
    /\ probeResp' = [probeResp EXCEPT ![i] = answer]
    /\ results' = [results EXCEPT ![i] = checkPort(PORTS[i], answer)]
    /\ firstArrived' = IF firstArrived = 0 /\ checkPort(PORTS[i], answer) # NullMatch
                       THEN i ELSE firstArrived
    /\ UNCHANGED <<discovered, allTargets, connVars, sessVars, otherVars>>

\* Promise.all has resolved: pick the match.
Select ==
    /\ probeResp # <<>>
    /\ \A i \in PortIdx : probeResp[i] # PendingAnswer
    /\ discovered = Running
    /\ discovered' = FindMatch(results)
    /\ UNCHANGED <<probeResp, results, firstArrived, allTargets, connVars,
                   sessVars, otherVars>>

(***************************************************************************)
(*                 Target discovery: discoverAllTargets                    *)
(***************************************************************************)
\* One entry of an endpoint's /json/list answer as discoverAllTargets reads
\* it: url is webSocketDebuggerUrl (0 when absent), app and worker as in Page.
Entry(id, url, app, worker) == [id |-> id, url |-> url, app |-> app, worker |-> worker]

\* An entry of the result: {id, port, url, ...}.
Target(id, port, url) == [id |-> id, port |-> port, url |-> url]

\* What endpoint number i may answer: a rejection, no target, a target of
\* its own, a target (id 99) that other endpoints report too, each under its
\* own debugger URL, and a list whose worker and URL-less entries do not
\* match.
AllAnswers(i) ==
    { Answer("err", <<>>),
      Answer("ok", <<>>),
      Answer("ok", << Entry(10 * i + 1, 10 * i + 1, TRUE, FALSE) >>),
      Answer("ok", << Entry(99, 100 * i + 99, TRUE, FALSE) >>),
      Answer("ok", << Entry(10 * i + 2, 10 * i + 2, TRUE, TRUE),
                      Entry(10 * i + 3, 0, TRUE, FALSE),
                      Entry(10 * i + 4, 10 * i + 4, FALSE, FALSE),
                      Entry(10 * i + 1, 10 * i + 1, TRUE, FALSE) >>) }

RECURSIVE FilterMap(_, _)
\* list.filter(app && type !== 'worker' && webSocketDebuggerUrl).map(...)
FilterMap(list, port) ==
    IF list = <<>> THEN <<>>
    ELSE LET t == Head(list)
         IN  IF t.app /\ ~t.worker /\ t.url # 0
             THEN <<Target(t.id, port, t.url)>> \o FilterMap(Tail(list), port)
             ELSE FilterMap(Tail(list), port)

\* How one checkPort promise of discoverAllTargets settles: rejected
\* (thrown) or fulfilled with a list.
PortResult(thrown, list) == [thrown |-> thrown, list |-> list]

\* checkPort(port) of discoverAllTargets, given getJson's outcome: the
\* try/catch turns a rejection of getJson into the empty list.
checkPortAllNoCatch(port, answer) ==
    IF answer.state # "ok" THEN PortResult(TRUE, <<>>)
    ELSE PortResult(FALSE, FilterMap(answer.list, port))
checkPortAll(port, answer) ==
    IF answer.state # "ok" THEN PortResult(FALSE, <<>>)
    ELSE PortResult(FALSE, FilterMap(answer.list, port))

RECURSIVE Flatten(_)
\* the nested loops over results and portTargets, in order
Flatten(rs) == IF rs = <<>> THEN <<>> ELSE Head(rs).list \o Flatten(Tail(rs))

RECURSIVE Dedup(_, _)
\* if (!seen.has(t.url)) { seen.add(t.url); allTargets.push(t); }
Dedup(ts, seen) ==
    IF ts = <<>> THEN <<>>
    ELSE IF Head(ts).url \in seen THEN Dedup(Tail(ts), seen)
         ELSE <<Head(ts)>> \o Dedup(Tail(ts), seen \cup {Head(ts).url})

\* discoverAllTargets' outcome: still running, the returned array, or a
\* rejection (Promise.all rejects when one of its promises does).
AllRunning == [status |-> "running", list |-> <<>>]
AllDone(list) == [status |-> "done", list |-> list]
AllFailed == [status |-> "failed", list |-> <<>>]

\* What discoverCDP's checkPort reads of the same /json/list entry.
PageOf(e) == Page(e.id, e.app, e.worker, e.url # 0)
ViewAnswer(answer) ==
    Answer(answer.state, [k \in DOMAIN answer.list |-> PageOf(answer.list[k])])

\* One probe of discoverAllTargets settles; the probes settle in any order.
ProbeAllDone(i, answer) ==
    /\ probeResp[i] = PendingAnswer
    /\ probeResp' = [probeResp EXCEPT ![i] = answer]
    /\ results' = [results EXCEPT ![i] = checkPortAll(PORTS[i], answer)]
    /\ UNCHANGED <<firstArrived, discovered, allTargets, connVars, sessVars, otherVars>>

\* Promise.all has resolved: merge the per-endpoint lists and return.
Merge ==
    /\ \A i \in PortIdx : probeResp[i] # PendingAnswer
    /\ allTargets = AllRunning
    /\ allTargets' = IF \E i \in PortIdx : results[i].thrown THEN AllFailed
                      ELSE AllDone(Dedup(Flatten(results), {}))
    /\ UNCHANGED <<probeResp, results, firstArrived, discovered, connVars,
                   sessVars, otherVars>>

\* discoverCDP() over the same endpoint answers.
SelectOne ==
    /\ \A i \in PortIdx : probeResp[i] # PendingAnswer
    /\ discovered = Running
    /\ discovered' = FindMatch([i \in PortIdx |->
                          checkPort(PORTS[i], ViewAnswer(probeResp[i]))])
    /\ UNCHANGED <<probeResp, results, firstArrived, allTargets, connVars,
                   sessVars, otherVars>>

(***************************************************************************)
(*        Session manager: initCDP, startPolling, POST /instance           *)
(***************************************************************************)
MaxSockets == 2          \* WebSockets the server creates in one run
MaxProcs == 2            \* async activations in flight at once
MAX_CDP_RETRIES == 2     \* 60 in server.js; scaled down, raised with the bounds
MAX_SNAPSHOT_FAILS == 5

Targets == {"A", "B"}
Procs == 1..MaxProcs

\* A WebSocket made by connectCDP: the target it connects to and its
\* readyState.
Sock(target, state) == [target |-> target, state |-> state]

\* Snapshot payloads ({html, css, ...} as returned by CAPTURE_SCRIPT); html is
\* a string, written as its sequence of UTF-16 code units.  NoSnap is null.
Snap(html, css) == [html |-> html, css |-> css]
NoSnap == Snap(<<>>, None)
Payloads ==
    { Snap(<<65, 97>>, "c1"),      \* "Aa"
      Snap(<<66, 66>>, "c2"),      \* "BB" (same hash as "Aa")
      Snap(<<67>>, "c1") }         \* "C"

\* One round of the loop: hash = ((hash << 5) - hash) + char; hash = hash & hash.
\* The shift and the final & both reduce to 32 bits, so the round computes
\* 31 * hash + char modulo 2^32.  The 32-bit value is kept as its two 16-bit
\* halves <<high, low>> (its two's-complement bits).
HashRound(hash, char) ==
    LET low == 31 * hash[2] + char
        high == 31 * hash[1] + (low \div 65536)
    IN  <<high % 65536, low % 65536>>

RECURSIVE HashFrom(_, _)
HashFrom(hash, str) ==
    IF str = <<>> THEN hash
    ELSE HashFrom(HashRound(hash, Head(str)), Tail(str))

\* hashString(str).  toString(36) is one-to-one on 32-bit integers, so the
\* string it returns is written as the integer's two halves; <<>> is null.
hashString(str) == HashFrom(<<0, 0>>, str)
NoHash == <<>>

\* One async activation at an await point.
\*   kind: main (initCDP().then(startPolling)), tick (one interval callback),
\*         req (one POST /instance)
\*   pc:   i_disc   initCDP awaits discoverCDP
\*         i_all    initCDP awaits discoverAllTargets
\*         i_sleep  initCDP awaits the 5 s delay
\*         c_open   connectCDP awaits 'open' / 'error'
\*         c_setup  connectCDP awaits Runtime.enable ... the context wait
\*         t_cap    captureSnapshot awaits a Runtime.evaluate
\*         r_all    POST /instance awaits discoverAllTargets
\*   sock, target: the WebSocket connectCDP made and the target it is for
\*   cdp, best:    captureSnapshot's argument and its bestSnapshot so far
\*   old:          the session POST /instance closed
Proc(kind, pc, sock, target, cdp, best, old) ==
    [kind |-> kind, pc |-> pc, sock |-> sock, target |-> target, cdp |-> cdp,
     best |-> best, old |-> old]
Idle == Proc("idle", "idle", 0, None, 0, NoSnap, 0)
InInit(kind) == Proc(kind, "i_disc", 0, None, 0, NoSnap, 0)

FreeSlot(p) == procs[p] = Idle /\ \A q \in Procs : q < p => procs[q] # Idle

\* History record of the capture tick the last step completed.
\*   result:   "failed" (captureSnapshot returned null), "same" (the payload
\*             equals the stored one), "unchanged" (another payload with the
\*             stored fingerprint), "changed" (another fingerprint), or
\*             "none" when the step completed no capture tick
\*   teardown: the tick discarded the session
Tick(result, teardown) == [result |-> result, teardown |-> teardown]
NoTick == Tick("none", FALSE)
TickResult(snapshot) ==
    IF snapshot = NoSnap THEN "failed"
    ELSE IF snapshot = lastSnapshot THEN "same"
    ELSE IF hashString(snapshot.html) = lastSnapshotHash THEN "unchanged"
    ELSE "changed"

\* The browser clients of the WebSocket server.  wss.clients holds a client
\* from its connection until its 'close'; "none" is a client not in the set.
MaxClients == 2
Clients == 1..MaxClients

\* lines 1457-1460: the message of a broadcast.
UpdateEvent == [type |-> "snapshot_update", timestamp |-> "now"]

\* lines 1455-1462: the clients the broadcast sends to.
RecipientsAll(cl) == {c \in DOMAIN cl : cl[c] # "none"}
Recipients(cl) == {c \in DOMAIN cl : cl[c] = "open"}

\* A step that completes no capture tick broadcasts nothing; a step of the
\* session manager leaves the clients as they are.
NoBroadcast ==
    /\ sent' = FALSE
    /\ lastTick' = NoTick
    /\ delivered' = {}
    /\ UNCHANGED clients

\* ... and one that also answers no POST /instance.
Quiet == NoBroadcast /\ httpStatus' = 0

\* ---- the body of one interval callback after captureSnapshot returned ----
\* lines 1435-1445: the failure counter after looking at the result
FailCountKept(count, snapshot) == count + 1
FailCountAfter(count, snapshot) == IF snapshot = NoSnap THEN count + 1 ELSE 0

\* line 1448: hash !== lastSnapshotHash
ChangedPayload(snapshot, storedHash) == snapshot # lastSnapshot
Changed(snapshot, storedHash) == hashString(snapshot.html) # storedHash

\* line 1468: snapshotFailCount >= MAX_SNAPSHOT_FAILS
TooManyFailsLate(count) == count > MAX_SNAPSHOT_FAILS
TooManyFails(count) == count >= MAX_SNAPSHOT_FAILS

\* Lines 1431-1473 for the result `snapshot` of a capture made on socket
\* `from`.  captureSnapshot never returns a payload with an error field
\* (line 369) and never throws (lines 335, 396), so the snapshot.error branch
\* and the catch block are not entered.
TickHandle(snapshot, from) ==
    LET store == snapshot # NoSnap /\ Changed(snapshot, lastSnapshotHash)
        count == FailCountAfter(snapshotFailCount, snapshot)
    IN  /\ lastSnapshot' = IF store THEN snapshot ELSE lastSnapshot
        /\ lastSnapshotHash' = IF store THEN hashString(snapshot.html)
                                        ELSE lastSnapshotHash
        /\ sent' = store
        /\ delivered' = IF store
                         THEN {[client |-> c, msg |-> UpdateEvent] : c \in Recipients(clients)}
                         ELSE {}
        /\ UNCHANGED clients
        /\ httpStatus' = 0
        /\ lastFrom' = IF store THEN from ELSE lastFrom
        /\ cdpConnection' = IF TooManyFails(count) THEN 0 ELSE cdpConnection
        /\ switched' = IF TooManyFails(count) THEN 0 ELSE switched
        /\ snapshotFailCount' = IF TooManyFails(count) THEN 0 ELSE count
        /\ consecFails' = IF snapshot = NoSnap
                          THEN (consecFails + 1) % MAX_SNAPSHOT_FAILS ELSE 0
        /\ lastTick' = Tick(TickResult(snapshot), TooManyFails(count))

\* ---- initCDP ----
\* initCDP returns (true or false) in activation p.
InitReturn(p) ==
    /\ procs' = [procs EXCEPT ![p] = Idle]
    /\ polling' = (polling \/ procs[p].kind = "main")

\* await discoverCDP() threw: catch, cdpRetryCount++, start the 5 s delay.
InitDiscoverFails(p) ==
    /\ procs[p].pc = "i_disc"
    /\ cdpRetryCount' = cdpRetryCount + 1
    /\ procs' = [procs EXCEPT ![p].pc = "i_sleep"]
    /\ Quiet
    /\ UNCHANGED <<sockets, socketsLeft, cdpConnection, activeTargetId, lastSnapshot,
                   lastSnapshotHash, discoveredInstances, snapshotFailCount,
                   polling, installed, retired, switched, lastFrom, consecFails,
                   connVars, discVars, otherVars>>

\* await discoverCDP() returned target t: connectCDP(url) makes the WebSocket.
InitDiscoverFinds(p, t) ==
    /\ procs[p].pc = "i_disc"
    /\ socketsLeft > 0
    /\ socketsLeft' = socketsLeft - 1
    /\ sockets' = Append(sockets, Sock(t, "connecting"))
    /\ procs' = [procs EXCEPT ![p].pc = "c_open", ![p].sock = Len(sockets) + 1,
                              ![p].target = t]
    /\ Quiet
    /\ UNCHANGED <<cdpConnection, activeTargetId, lastSnapshot,
                   lastSnapshotHash, discoveredInstances, cdpRetryCount,
                   snapshotFailCount, polling, installed, retired, switched, lastFrom,
                   consecFails, connVars, discVars, otherVars>>

\* the 5 s delay is over: the while condition is evaluated again.
InitWake(p) ==
    /\ procs[p].pc = "i_sleep"
    /\ IF cdpRetryCount < MAX_CDP_RETRIES
       THEN /\ procs' = [procs EXCEPT ![p].pc = "i_disc"]
            /\ UNCHANGED polling
       ELSE InitReturn(p)
    /\ Quiet
    /\ UNCHANGED <<sockets, socketsLeft, cdpConnection, activeTargetId, lastSnapshot,
                   lastSnapshotHash, discoveredInstances, cdpRetryCount,
                   snapshotFailCount, installed, retired, switched, lastFrom,
                   consecFails, connVars, discVars, otherVars>>

\* await discoverAllTargets() returned S: counters reset, return true.
InitAllDone(p, S) ==
    /\ procs[p].pc = "i_all"
    /\ discoveredInstances' = S
    /\ cdpRetryCount' = 0
    /\ snapshotFailCount' = 0
    /\ consecFails' = 0
    /\ InitReturn(p)
    /\ Quiet
    /\ UNCHANGED <<sockets, socketsLeft, cdpConnection, activeTargetId, lastSnapshot,
                   lastSnapshotHash, installed, retired, switched, lastFrom, connVars,
                   discVars, otherVars>>

\* ---- connectCDP, as awaited by initCDP and by POST /instance ----
\* ws 'open'.
ConnectOpened(p) ==
    /\ procs[p].pc = "c_open"
    /\ sockets' = [sockets EXCEPT ![procs[p].sock].state = "open"]
    /\ UNCHANGED socketsLeft
    /\ procs' = [procs EXCEPT ![p].pc = "c_setup"]
    /\ Quiet
    /\ UNCHANGED <<cdpConnection, activeTargetId, lastSnapshot,
                   lastSnapshotHash, discoveredInstances, cdpRetryCount,
                   snapshotFailCount, polling, installed, retired, switched, lastFrom,
                   consecFails, connVars, discVars, otherVars>>

\* connectCDP rejects: ws 'error' before 'open' (the socket is then closed),
\* or the first Runtime.enable fails or times out (the socket stays as it is).
\* initCDP's catch counts a retry and sleeps; POST /instance answers 500.
ConnectFails(p) ==
    /\ procs[p].pc \in {"c_open", "c_setup"}
    /\ sockets' = IF procs[p].pc = "c_open"
                  THEN [sockets EXCEPT ![procs[p].sock].state = "closed"]
                  ELSE sockets
    /\ UNCHANGED socketsLeft
    /\ IF procs[p].kind = "req"
       THEN /\ procs' = [procs EXCEPT ![p] = Idle]
            /\ httpStatus' = 500
            /\ UNCHANGED cdpRetryCount
       ELSE /\ procs' = [procs EXCEPT ![p].pc = "i_sleep"]
            /\ httpStatus' = 0
            /\ cdpRetryCount' = cdpRetryCount + 1
    /\ NoBroadcast
    /\ UNCHANGED <<cdpConnection, activeTargetId, lastSnapshot,
                   lastSnapshotHash, discoveredInstances, snapshotFailCount,
                   polling, installed, retired, switched, lastFrom, consecFails,
                   connVars, discVars, otherVars>>

\* line 1778: cdpRetryCount = 0 once POST /instance has connected
SwitchRetryCountKept(count) == count
SwitchRetryCount(count) == 0

\* Lines 1402 and 1776: activeTargetId = <the id of the target connected to>.
InstalledTargetIdKept(current, target) == current
InstalledTargetId(current, target) == target

\* connectCDP returns {ws, call, getContexts}.  initCDP stores it and goes on
\* to discoverAllTargets; POST /instance stores it, resets both counters and
\* answers 200.
ConnectReady(p) ==
    /\ procs[p].pc = "c_setup"
    /\ cdpConnection' = procs[p].sock
    /\ activeTargetId' = InstalledTargetId(activeTargetId, procs[p].target)
    /\ installed' = installed \cup {procs[p].sock}
    /\ IF procs[p].kind = "req"
       THEN /\ procs' = [procs EXCEPT ![p] = Idle]
            /\ snapshotFailCount' = 0
            /\ cdpRetryCount' = SwitchRetryCount(cdpRetryCount)
            /\ consecFails' = 0
            /\ retired' = retired \cup ({procs[p].old} \ {0})
            /\ switched' = IF procs[p].old # 0 THEN procs[p].sock ELSE 0
            /\ httpStatus' = 200
       ELSE /\ procs' = [procs EXCEPT ![p].pc = "i_all"]
            /\ httpStatus' = 0
            /\ UNCHANGED <<snapshotFailCount, cdpRetryCount, consecFails,
                           retired, switched>>
    /\ NoBroadcast
    /\ UNCHANGED <<sockets, socketsLeft, lastSnapshot, lastSnapshotHash,
                   discoveredInstances, polling, lastFrom, connVars, discVars, otherVars>>

\* ---- startPolling: one setInterval callback ----
\* Lines 1425-1432: what the callback awaits first.  Without a session it is
\* initCDP() (and nothing else follows); with one it is captureSnapshot.
TickEnterCaptures(session) == Proc("tick", "t_cap", 0, None, session, NoSnap, 0)
TickEnter(session) ==
    IF session = 0 THEN InInit("tick")
    ELSE Proc("tick", "t_cap", 0, None, session, NoSnap, 0)

\* The interval fires.  Without a session the callback awaits initCDP()
\* (which returns at once when the retries are used up); with one it calls
\* captureSnapshot(cdpConnection), which returns null at once when the
\* session has no contexts (empty) and otherwise awaits its first call.
TickFire(p, empty) ==
    /\ polling
    /\ FreeSlot(p)
    /\ IF cdpConnection = 0
       THEN /\ ~empty
            /\ procs' = IF cdpRetryCount < MAX_CDP_RETRIES
                        THEN [procs EXCEPT ![p] = TickEnter(cdpConnection)]
                        ELSE procs
            /\ Quiet
            /\ UNCHANGED <<cdpConnection, lastSnapshot, lastSnapshotHash,
                           snapshotFailCount, lastFrom, consecFails, switched>>
       ELSE IF empty
       THEN /\ TickHandle(NoSnap, cdpConnection)
            /\ UNCHANGED procs
       ELSE /\ procs' = [procs EXCEPT ![p] = TickEnter(cdpConnection)]
            /\ Quiet
            /\ UNCHANGED <<cdpConnection, lastSnapshot, lastSnapshotHash,
                           snapshotFailCount, lastFrom, consecFails, switched>>
    /\ UNCHANGED <<sockets, socketsLeft, activeTargetId, discoveredInstances, cdpRetryCount,
                   polling, installed, retired, connVars, discVars, otherVars>>

\* The outcome of one context of the sweep (lines 334-397).  out = NoSnap:
\* the probe or the capture call failed or timed out, returned an error
\* object, or scored no higher than the best so far.  Otherwise out becomes
\* bestSnapshot, which takes a response read from an open socket.
SweepOutcome(p, out) ==
    /\ procs[p].pc = "t_cap"
    /\ out # NoSnap => sockets[procs[p].cdp].state = "open"

BestAfter(p, out) == IF out # NoSnap THEN out ELSE procs[p].best

\* captureSnapshot finishes a context that is not the last of the sweep.
CaptureEval(p, out) ==
    /\ SweepOutcome(p, out)
    /\ procs[p].best # BestAfter(p, out)
    /\ procs' = [procs EXCEPT ![p].best = BestAfter(p, out)]
    /\ Quiet
    /\ UNCHANGED <<sockets, socketsLeft, cdpConnection, activeTargetId, lastSnapshot,
                   lastSnapshotHash, discoveredInstances, cdpRetryCount,
                   snapshotFailCount, polling, installed, retired, switched, lastFrom,
                   consecFails, connVars, discVars, otherVars>>

\* captureSnapshot finishes the last context and returns bestSnapshot; the
\* callback handles it in the same turn.
CaptureLast(p, out) ==
    /\ SweepOutcome(p, out)
    /\ TickHandle(BestAfter(p, out), procs[p].cdp)
    /\ procs' = [procs EXCEPT ![p] = Idle]
    /\ UNCHANGED <<sockets, socketsLeft, activeTargetId, discoveredInstances, cdpRetryCount,
                   polling, installed, retired, connVars, discVars, otherVars>>

\* Lines 1474-1482: a statement of the callback's try block throws err while
\* the callback handles the outcome `out` of the capture of activation p.
\*   inBroadcast: the throw comes from a client.send of the broadcast, after
\*                the counter reset and the store (lines 1445-1452); otherwise
\*                from the awaited captureSnapshot, before any assignment
\*   closing:     err.message includes 'WebSocket' or 'close'
\* The catch block counts a failure and, for a closing error, discards the
\* session; it has no threshold check.
MaxFailCount == 6        \* where the runs stop counting thrown ticks
CatchCount(count) == count + 1
TickThrows(p, out, inBroadcast, closing) ==
    /\ SweepOutcome(p, out)
    /\ snapshotFailCount < MaxFailCount
    /\ LET snapshot == BestAfter(p, out)
           store == /\ inBroadcast
                    /\ snapshot # NoSnap
                    /\ Changed(snapshot, lastSnapshotHash)
                    /\ Recipients(clients) # {}
       IN  /\ inBroadcast => store
           /\ lastSnapshot' = IF store THEN snapshot ELSE lastSnapshot
           /\ lastSnapshotHash' = IF store THEN hashString(snapshot.html)
                                           ELSE lastSnapshotHash
           /\ lastFrom' = IF store THEN procs[p].cdp ELSE lastFrom
           /\ snapshotFailCount' = CatchCount(IF store THEN 0 ELSE snapshotFailCount)
           /\ consecFails' = IF store THEN 1
                             ELSE (consecFails + 1) % MAX_SNAPSHOT_FAILS
    /\ cdpConnection' = IF closing THEN 0 ELSE cdpConnection
    /\ switched' = IF closing THEN 0 ELSE switched
    /\ sent' = FALSE
    /\ delivered' = {}
    /\ httpStatus' = 0
    /\ lastTick' = Tick("threw", closing)
    /\ procs' = [procs EXCEPT ![p] = Idle]
    /\ UNCHANGED <<clients, sockets, socketsLeft, activeTargetId, discoveredInstances,
                   cdpRetryCount, polling, installed, retired, connVars, discVars,
                   otherVars>>

\* ---- POST /instance ----
\* Lines 1765-1768: close the socket of the current session, if there is
\* one.  ws.close() on a socket that is already closed does nothing.  The
\* outcome tells whether the statement threw and gives the sockets after it.
CloseOutcome(thrown, socks) == [thrown |-> thrown, socks |-> socks]
CloseExistingUnguarded(socks, session) ==
    IF session = 0 THEN CloseOutcome(TRUE, socks)
    ELSE CloseOutcome(FALSE, [socks EXCEPT ![session].state = "closed"])
CloseExisting(socks, session) ==
    IF session # 0
    THEN CloseOutcome(FALSE, [socks EXCEPT ![session].state = "closed"])
    ELSE CloseOutcome(FALSE, socks)

\* Lines 1760-1763: discoveredInstances.find(i => i.id === targetId) finds a
\* target.
TargetKnownAlways(tid, S) == TRUE
TargetKnown(tid, S) == tid \in S

\* Line 1771: lastSnapshotHash = null.
ClearedHashKept(hash) == hash
ClearedHash(hash) == NoHash

\* Lines 1759-1778 once discoveredInstances is known to be S: 404 if the
\* target is not in it; otherwise close the current socket, clear the
\* session and the stored snapshot, and call connectCDP(target.url).  An
\* exception on the way is answered with 500 (line 1782).
Switch(p, tid, S) ==
    IF ~TargetKnown(tid, S)
    THEN /\ procs' = [procs EXCEPT ![p] = Idle]
         /\ httpStatus' = 404
         /\ UNCHANGED <<sockets, socketsLeft, cdpConnection, lastSnapshot, lastSnapshotHash,
                        lastFrom, switched>>
    ELSE IF CloseExisting(sockets, cdpConnection).thrown
    THEN /\ procs' = [procs EXCEPT ![p] = Idle]
         /\ httpStatus' = 500
         /\ UNCHANGED <<sockets, socketsLeft, cdpConnection, lastSnapshot, lastSnapshotHash,
                        lastFrom, switched>>
    ELSE /\ socketsLeft > 0
         /\ socketsLeft' = socketsLeft - 1
         /\ sockets' = Append(CloseExisting(sockets, cdpConnection).socks,
                              Sock(tid, "connecting"))
         /\ httpStatus' = 0
         /\ cdpConnection' = 0
         /\ lastSnapshot' = NoSnap
         /\ lastSnapshotHash' = ClearedHash(lastSnapshotHash)
         /\ lastFrom' = 0
         /\ switched' = 0
         /\ procs' = [procs EXCEPT ![p] =
                        Proc("req", "c_open", Len(sockets) + 1, tid, 0, NoSnap,
                             cdpConnection)]

\* The request arrives with body {targetId: tid}; None is a missing targetId.
ReqArrive(p, tid) ==
    /\ FreeSlot(p)
    /\ IF tid = None
       THEN /\ httpStatus' = 400
            /\ UNCHANGED <<sockets, socketsLeft, cdpConnection, lastSnapshot, lastSnapshotHash,
                           lastFrom, switched, procs>>
       ELSE IF discoveredInstances = {}
       THEN /\ procs' = [procs EXCEPT ![p] =
                           Proc("req", "r_all", 0, tid, 0, NoSnap, 0)]
            /\ httpStatus' = 0
            /\ UNCHANGED <<sockets, socketsLeft, cdpConnection, lastSnapshot, lastSnapshotHash,
                           lastFrom, switched>>
       ELSE Switch(p, tid, discoveredInstances)
    /\ NoBroadcast
    /\ UNCHANGED <<activeTargetId, discoveredInstances, cdpRetryCount,
                   snapshotFailCount, polling, installed, retired, consecFails,
                   connVars, discVars, otherVars>>

\* await discoverAllTargets() returned S.
ReqAllDone(p, S) ==
    /\ procs[p].pc = "r_all"
    /\ discoveredInstances' = S
    /\ Switch(p, procs[p].target, S)
    /\ NoBroadcast
    /\ UNCHANGED <<activeTargetId, cdpRetryCount, snapshotFailCount, polling,
                   installed, retired, consecFails, connVars, discVars, otherVars>>

\* ---- the debugging endpoints ----
\* Targets appear and disappear: from now on the endpoints report S.
EnvTargets(S) ==
    /\ available # S
    /\ available' = S
    /\ Quiet
    /\ UNCHANGED <<sockets, socketsLeft, cdpConnection, activeTargetId, lastSnapshot,
                   lastSnapshotHash, discoveredInstances, cdpRetryCount,
                   snapshotFailCount, polling, procs, installed, retired,
                   switched, lastFrom, consecFails, connVars, discVars,
                   cleaner, popup, wsman>>

\* GET /instances (lines 1732-1735): discoveredInstances = await
\* discoverAllTargets(), which returns what the endpoints report.
ListInstances ==
    /\ discoveredInstances # available
    /\ discoveredInstances' = available
    /\ Quiet
    /\ UNCHANGED <<sockets, socketsLeft, cdpConnection, activeTargetId, lastSnapshot,
                   lastSnapshotHash, cdpRetryCount, snapshotFailCount, polling,
                   procs, installed, retired, switched, lastFrom, consecFails,
                   connVars, discVars, otherVars>>

\* ---- the debugging target ----
\* The target (or the network) closes WebSocket s: ws emits 'close'.  No
\* listener for 'close' is registered on a session's socket, so nothing of
\* the server's state changes.
EnvClose(s) ==
    /\ sockets[s].state = "open"
    /\ sockets' = [sockets EXCEPT ![s].state = "closed"]
    /\ Quiet
    /\ UNCHANGED <<socketsLeft, cdpConnection, activeTargetId, lastSnapshot,
                   lastSnapshotHash, discoveredInstances, cdpRetryCount,
                   snapshotFailCount, polling, procs, installed, retired,
                   switched, lastFrom, consecFails, connVars, discVars, otherVars>>

\* ---- the browser clients (wss.on('connection'), lines 2622-2629) ----
\* Client c connects, starts closing (its readyState is CLOSING until the
\* closing handshake ends) or is gone (wss removes it on 'close').
ClientEvent(c, state) ==
    /\ clients[c] # state
    /\ state = "closing" => clients[c] = "open"
    /\ state = "open" => clients[c] = "none"
    /\ clients' = [clients EXCEPT ![c] = state]
    /\ sent' = FALSE /\ lastTick' = NoTick /\ delivered' = {} /\ httpStatus' = 0
    /\ UNCHANGED <<sockets, socketsLeft, cdpConnection, activeTargetId,
                   lastSnapshot, lastSnapshotHash, discoveredInstances,
                   cdpRetryCount, snapshotFailCount, polling, procs, installed,
                   retired, switched, lastFrom, consecFails, connVars, discVars, otherVars>>

(***************************************************************************)
(*            connectCDP: from new WebSocket(url) to the return            *)
(***************************************************************************)
AttemptCalls == 3        \* the calls connectCDP makes (lines 199, 205, 206)
MaxWaits == 10           \* while (contexts.length === 0 && waitCount < 10)

\* What the target may send during the attempt: a result or an error for
\* each of the three calls, and the events.
AttemptMessages ==
    {m \in Messages : m.result # "r2" /\ m.ctx \in {NoCtx, [id |-> 1, name |-> "top"]}}
    \cup
    [id : {AttemptCalls}, method : {None}, result : {"r1"}, error : {None},
     ctx : {NoCtx}, ctxId : {0}]
    \cup
    [id : {AttemptCalls}, method : {None}, result : {None}, error : {"e1"},
     ctx : {NoCtx}, ctxId : {0}]

\* call(method, {}) made by connectCDP.  throws: ws.send threw (possible
\* only on a socket that is not open); the promise executor then rejects the
\* call with its handler and timer already registered.
IssueCall(method, throws, pc) ==
    /\ throws => sockets[1].state # "open"
    /\ calls' = Append(calls, IF throws
                              THEN Settle(NewCall(idCounter), "rejected", "closed")
                              ELSE NewCall(idCounter))
    /\ idCounter' = NextId(idCounter)
    /\ attempt' = [attempt EXCEPT !.pc = pc, !.methods = Append(@, method)]

\* lines 209-214: the while condition of the context wait, evaluated with
\* waitCount = n.
WaitOrReadyNonEmptyOnly(n) ==
    /\ attempt' = [attempt EXCEPT !.waitCount = n,
                                  !.pc = IF contexts = <<>> THEN "c_wait"
                                         ELSE "ready"]
    /\ UNCHANGED <<calls, idCounter>>
WaitOrReady(n) ==
    /\ attempt' = [attempt EXCEPT !.waitCount = n,
                                  !.pc = IF contexts = <<>> /\ n < MaxWaits
                                         THEN "c_wait" ELSE "ready"]
    /\ UNCHANGED <<calls, idCounter>>

\* line 199 after a rejected first Runtime.enable: the rejection leaves
\* connectCDP.
FirstEnableFailedTolerated(n) == WaitOrReady(n)
FirstEnableFailed(n) ==
    /\ attempt' = [attempt EXCEPT !.pc = "failed"]
    /\ UNCHANGED <<calls, idCounter>>

\* ws emits 'open': the await of lines 151-154 resolves, the registry
\* listener is registered and the first Runtime.enable is sent.
AttemptOpened ==
    /\ attempt.pc = "c_open"
    /\ sockets' = [sockets EXCEPT ![1].state = "open"]
    /\ IssueCall("Runtime.enable", FALSE, "c_enable")
    /\ Quiet
    /\ UNCHANGED <<contexts, regModel, lastReg, sweep, discVars, otherVars, socketsLeft,
                   cdpConnection, activeTargetId, lastSnapshot, lastSnapshotHash,
                   discoveredInstances, cdpRetryCount, snapshotFailCount,
                   polling, procs, installed, retired, switched, lastFrom,
                   consecFails>>

\* ws emits 'error' before 'open': connectCDP rejects.
AttemptError ==
    /\ attempt.pc = "c_open"
    /\ sockets' = [sockets EXCEPT ![1].state = "closed"]
    /\ attempt' = [attempt EXCEPT !.pc = "failed"]
    /\ Quiet
    /\ UNCHANGED <<idCounter, calls, contexts, regModel, lastReg, sweep, discVars, otherVars,
                   socketsLeft, cdpConnection, activeTargetId, lastSnapshot,
                   lastSnapshotHash, discoveredInstances, cdpRetryCount,
                   snapshotFailCount, polling, procs, installed, retired,
                   switched, lastFrom, consecFails>>

\* A message arrives on the open socket.
AttemptReceive(data) ==
    /\ attempt.pc # "c_open"
    /\ sockets[1].state = "open"
    /\ Receive(data)

\* The awaited call has settled and connectCDP goes on (lines 199-210).
AttemptResume(throws) ==
    /\ attempt.pc \in {"c_enable", "c_disable", "c_reenable"}
    /\ calls[Len(calls)].state # "pending"
    /\ LET ok == calls[Len(calls)].state = "resolved" IN
       IF attempt.pc = "c_enable"
       THEN IF ok THEN IssueCall("Runtime.disable", throws, "c_disable")
                  ELSE ~throws /\ FirstEnableFailed(attempt.waitCount)
       ELSE IF attempt.pc = "c_disable" /\ ok
       THEN IssueCall("Runtime.enable", throws, "c_reenable")
       ELSE ~throws /\ WaitOrReady(attempt.waitCount)
    /\ UNCHANGED <<contexts, regModel, lastReg, sweep, discVars, otherVars, sessVars>>

\* A 500 ms delay of the context wait is over: waitCount++, and the while
\* condition is evaluated again.
AttemptWaitTick ==
    /\ attempt.pc = "c_wait"
    /\ WaitOrReady(attempt.waitCount + 1)
    /\ UNCHANGED <<contexts, regModel, lastReg, sweep, discVars, otherVars, sessVars>>

(***************************************************************************)
(*          Upload cache cleanup: utils/cache-manager.js                   *)
(***************************************************************************)
MAX_AGE_DAYS == 7
MIN_FILES_TO_KEEP == 10
DayMs == 86400000        \* 24 * 60 * 60 * 1000
MaxFiles == 12           \* files in the upload folders
CleanNow == 20 * DayMs   \* Date.now() of the run, on a clock that starts at 0

\* One entry of getAllFiles' result: {name, createdAt: stats.birthtimeMs}.
File(name, createdAt) == [name |-> name, createdAt |-> createdAt]

\* The ages a file may have at the run: 7 days to the millisecond, and 10 days.
FileAges == {MAX_AGE_DAYS * DayMs, 10 * DayMs}

RECURSIVE InsertDesc(_, _)
\* f put after every entry that sorts before it or ties with it.
InsertDesc(f, sorted) ==
    IF sorted = <<>> THEN <<f>>
    ELSE IF Head(sorted).createdAt >= f.createdAt
         THEN <<Head(sorted)>> \o InsertDesc(f, Tail(sorted))
         ELSE <<f>> \o sorted

RECURSIVE SortNewestFirst(_)
\* allFiles.sort((a, b) => b.createdAt - a.createdAt): newest first, stable.
SortNewestFirst(list) ==
    IF list = <<>> THEN <<>>
    ELSE InsertDesc(list[Len(list)], SortNewestFirst(SubSeq(list, 1, Len(list) - 1)))

\* if (i < MIN_FILES_TO_KEEP) continue, for the entry at position i (from 1).
ProtectedOneLess(i) == i < MIN_FILES_TO_KEEP
Protected(i) == i <= MIN_FILES_TO_KEEP

\* age > maxAge
TooOldInclusive(file) == CleanNow - file.createdAt >= MAX_AGE_DAYS * DayMs
TooOld(file) == CleanNow - file.createdAt > MAX_AGE_DAYS * DayMs

\* The loop runs on from position i to the next entry it deletes: the
\* position of the fs.unlink it awaits next, 0 when the loop ends.
NextUnlink(list, i) ==
    LET D == {k \in i..Len(list) : ~Protected(k) /\ TooOld(list[k])}
    IN  IF D = {} THEN 0 ELSE CHOOSE k \in D : \A j \in D : k <= j

\* One cleanupOldFiles run.
\*   pc:      none (no run is modelled), list (awaiting getAllFiles),
\*            unlink (awaiting fs.unlink of list[i]), done
\*   dir:     what getAllFiles will return / returned, in readdir order
\*   list:    allFiles after the sort
\*   exists:  the names of the files in the upload folders
\*   deleted: history, the names the run has unlinked
Cleaner(pc, dir, list, i, exists, deleted) ==
    [pc |-> pc, dir |-> dir, list |-> list, i |-> i, exists |-> exists,
     deleted |-> deleted]
NoCleaner == Cleaner("none", <<>>, <<>>, 0, {}, {})

\* getAllFiles returned: sort, and run the loop to its first fs.unlink.
CleanupListed ==
    /\ cleaner.pc = "list"
    /\ LET list == SortNewestFirst(cleaner.dir)
           i == NextUnlink(list, 1)
       IN  cleaner' = [cleaner EXCEPT !.list = list, !.i = i,
                                      !.pc = IF i = 0 THEN "done" ELSE "unlink"]
    /\ UNCHANGED <<popup, wsman, available, connVars, discVars, sessVars>>

\* fs.unlink(file.path) settled (ok: the file is gone; otherwise the catch
\* logs the error), and the loop runs on.
CleanupUnlinked(ok) ==
    /\ cleaner.pc = "unlink"
    /\ LET name == cleaner.list[cleaner.i].name
           i == NextUnlink(cleaner.list, cleaner.i + 1)
       IN  cleaner' = [cleaner EXCEPT
                         !.exists = IF ok THEN @ \ {name} ELSE @,
                         !.deleted = IF ok THEN @ \cup {name} ELSE @,
                         !.i = i,
                         !.pc = IF i = 0 THEN "done" ELSE "unlink"]
    /\ UNCHANGED <<popup, wsman, available, connVars, discVars, sessVars>>

(***************************************************************************)
(*          The client's popup poll: public/js/actionManager.js            *)
(***************************************************************************)
PollInterval == 2000     \* this.pollInterval
SnoozeMs == 60000        \* hidePermissionWarning: Date.now() + 60000
ClockStep == 10 * PollInterval   \* the clock is observed every 20 s
MaxTicks == 7            \* clock steps in a run
Never == 0 - 1           \* no dismissal yet

\* What /check-popups answers: the first of the four dialogs the desktop
\* shows, in the priority order of the poll, "nothing" when it shows none,
\* "failed" when the response is not ok.
PollKinds == {"command", "tool", "step", "browser", "nothing", "failed"}

\* The last thing that happened to the popups.
PopupEvent(ev, kind) == [ev |-> ev, kind |-> kind]

\* The ActionManager of one browser page.
\*   el:           document.getElementById('permissionWarning') exists
\*   now:          Date.now(), on a clock that starts at 0
\*   snoozedUntil: this.permissionSnoozedUntil, 0 while undefined
\*   showing:      the popup that has the 'show' class
\*   dismissedAt:  history, when the dismiss button was last clicked
\*   last:         history, the last event
Popup(el, now, snoozedUntil, showing, dismissedAt, last) ==
    [el |-> el, now |-> now, snoozedUntil |-> snoozedUntil,
     showing |-> showing, dismissedAt |-> dismissedAt, last |-> last]
NoPopup == Popup(FALSE, 0, 0, "none", Never, PopupEvent("none", "none"))

\* hidePermissionWarning(): with the element, remove 'show' and snooze.
hidePermissionWarning(p) ==
    IF p.el
    THEN [p EXCEPT !.showing = IF @ = "browser" THEN "none" ELSE @,
                   !.snoozedUntil = p.now + SnoozeMs]
    ELSE p

\* hideAll(): the four hide functions.
hideAll(p) == [hidePermissionWarning(p) EXCEPT !.showing = "none"]

\* showBrowserPermission(data)
showBrowserPermission(p) ==
    IF p.el THEN [p EXCEPT !.showing = "browser"] ELSE p

\* this.permissionSnoozedUntil && Date.now() < this.permissionSnoozedUntil
Snoozed(p) == p.snoozedUntil # 0 /\ p.now < p.snoozedUntil

\* pollForActions, from the answer of /check-popups on.
PopupPoll(kind) ==
    /\ LET h == hideAll(popup)
           q == IF kind = "failed" THEN popup
                ELSE IF kind \in {"command", "tool", "step"}
                     THEN [h EXCEPT !.showing = kind]
                ELSE IF kind = "browser"
                     THEN IF ~Snoozed(h) THEN showBrowserPermission(h) ELSE h
                ELSE h
       IN  popup' = [q EXCEPT !.last = PopupEvent("poll", kind)]
    /\ UNCHANGED <<cleaner, wsman, available, connVars, discVars, sessVars>>

\* The click listener of dismissBtn.
PopupDismiss ==
    /\ popup' = [hidePermissionWarning(popup) EXCEPT
                   !.dismissedAt = popup.now,
                   !.last = PopupEvent("dismiss", "none")]
    /\ UNCHANGED <<cleaner, wsman, available, connVars, discVars, sessVars>>

\* Time passes.
PopupClock ==
    /\ popup.now < MaxTicks * ClockStep
    /\ popup' = [popup EXCEPT !.now = @ + ClockStep,
                              !.last = PopupEvent("clock", "none")]
    /\ UNCHANGED <<cleaner, wsman, available, connVars, discVars, sessVars>>

(***************************************************************************)
(*        The client's WebSocketManager (server.js lines 2690-2801)        *)
(***************************************************************************)
MaxWs == 9               \* connect() calls in a run

\* The WebSocketManager of one browser page.
\*   socks:          the readyState of every WebSocket connect() has made
\*   ws:             this.ws, an index into socks (0 for null)
\*   reconnectTimer: this.reconnectTimer, a timer id (0 for null)
\*   pending:        the ids of the timeouts set and neither fired nor cleared
\*   nextTimer:      the id the next setTimeout returns
\*   status:         what updateStatus showed last
\*   connects:       history, the connect() calls so far
\*   due:            history, a 'close' has arrived since the last connect()
WsMan(socks, ws, reconnectTimer, pending, nextTimer, status, connects, due) ==
    [socks |-> socks, ws |-> ws, reconnectTimer |-> reconnectTimer,
     pending |-> pending, nextTimer |-> nextTimer, status |-> status,
     connects |-> connects, due |-> due]
NoWsMan == WsMan(<<>>, 0, 0, {}, 1, "none", 0, FALSE)

\* scheduleReconnect()
scheduleReconnect(m) ==
    IF m.reconnectTimer # 0 THEN m
    ELSE [m EXCEPT !.status = "reconnecting",
                   !.reconnectTimer = m.nextTimer,
                   !.pending = @ \cup {m.nextTimer},
                   !.nextTimer = @ + 1]

\* connect(); throws: new WebSocket(url) throws.
connect(m, throws) ==
    LET c == [m EXCEPT !.connects = @ + 1, !.due = FALSE]
    IN  IF throws THEN scheduleReconnect(c)
        ELSE [c EXCEPT !.socks = Append(@, "connecting"),
                       !.ws = Len(m.socks) + 1]

\* handleOpen()
handleOpen(m) ==
    LET c == [m EXCEPT !.status = "connected"]
    IN  IF m.reconnectTimer # 0
        THEN [c EXCEPT !.pending = @ \ {m.reconnectTimer}, !.reconnectTimer = 0]
        ELSE c

\* handleClose()
handleClose(m) == scheduleReconnect([m EXCEPT !.status = "disconnected", !.due = TRUE])

\* Line 2763, in the timer callback: this.reconnectTimer = null.
TimerFiredKept(timer) == timer
TimerFired(timer) == 0

\* WebSocket i fires 'open'.
WsOpen(i) ==
    /\ i \in DOMAIN wsman.socks /\ wsman.socks[i] = "connecting"
    /\ wsman' = handleOpen([wsman EXCEPT !.socks[i] = "open"])
    /\ UNCHANGED <<cleaner, popup, available, connVars, discVars, sessVars>>

\* WebSocket i fires 'error' (a 'close' follows): handleError().
WsError(i) ==
    /\ i \in DOMAIN wsman.socks /\ wsman.socks[i] \in {"connecting", "open"}
    /\ wsman.status # "error"
    /\ wsman' = [wsman EXCEPT !.status = "error"]
    /\ UNCHANGED <<cleaner, popup, available, connVars, discVars, sessVars>>

\* WebSocket i fires 'close'.  (After the run's last connect() the sockets
\* stay as they are.)
WsClose(i) ==
    /\ i \in DOMAIN wsman.socks /\ wsman.socks[i] \in {"connecting", "open"}
    /\ wsman.connects < MaxWs
    /\ wsman' = handleClose([wsman EXCEPT !.socks[i] = "closed"])
    /\ UNCHANGED <<cleaner, popup, available, connVars, discVars, sessVars>>

\* The timeout with this id fires, reconnectInterval after it was set: the
\* callback of scheduleReconnect.
WsTimer(id, throws) ==
    /\ id \in wsman.pending
    /\ wsman.connects < MaxWs
    /\ throws => wsman.connects + 1 < MaxWs
    /\ wsman' = connect([wsman EXCEPT !.pending = @ \ {id},
                                      !.reconnectTimer = TimerFired(@)], throws)
    /\ UNCHANGED <<cleaner, popup, available, connVars, discVars, sessVars>>


OtherInit0 ==
    /\ cleaner = NoCleaner
    /\ popup = NoPopup
    /\ wsman = NoWsMan
    /\ available = Targets

SessInit0 ==
    /\ sockets = <<>>
    /\ socketsLeft = MaxSockets
    /\ cdpConnection = 0
    /\ activeTargetId = None
    /\ lastSnapshot = NoSnap
    /\ lastSnapshotHash = NoHash
    /\ discoveredInstances = {}
    /\ cdpRetryCount = 0
    /\ snapshotFailCount = 0
    /\ polling = FALSE
    /\ procs = [p \in Procs |-> Idle]
    /\ sent = FALSE
    /\ httpStatus = 0
    /\ clients = [c \in Clients |-> "none"]
    /\ delivered = {}
    /\ installed = {}
    /\ retired = {}
    /\ switched = 0
    /\ lastFrom = 0
    /\ consecFails = 0
    /\ lastTick = NoTick

DiscInit0 ==
    /\ probeResp = <<>>
    /\ results = <<>>
    /\ firstArrived = 0
    /\ discovered = Running
    /\ allTargets = AllRunning

ConnInit0 ==
    /\ idCounter = 1
    /\ calls = <<>>
    /\ contexts = <<>>
    /\ regModel = {}
    /\ lastReg = None
    /\ sweep = NoSweep
    /\ attempt = NoAttempt

InitConn == ConnInit0 /\ DiscInit0 /\ SessInit0 /\ OtherInit0

NextConn ==
    \/ Call
    \/ \E data \in Messages : Receive(data)
    \/ \E i \in DOMAIN calls : Timeout(i)
    \/ StoreSession
    \/ DropSession

SpecConn == InitConn /\ [][NextConn]_vars

\* The registry of one transport and a caller sweeping over its contexts.
NextSweep ==
    \/ \E data \in Messages : Receive(data)
    \/ GetContexts
    \/ SweepStep

SpecSweep == InitConn /\ [][NextSweep]_vars

\* cleanupOldFiles(uploadDir) has been called on upload folders holding up
\* to MaxFiles files of any ages, listed in any order.
InitClean ==
    /\ ConnInit0
    /\ DiscInit0
    /\ SessInit0
    /\ popup = NoPopup
    /\ wsman = NoWsMan
    /\ available = Targets
    /\ \E n \in 0..MaxFiles :
          \E ages \in [1..n -> FileAges] :
              cleaner = Cleaner("list",
                                [k \in 1..n |-> File(k, CleanNow - ages[k])],
                                <<>>, 0, 1..n, {})

NextClean ==
    \/ CleanupListed
    \/ \E ok \in BOOLEAN : CleanupUnlinked(ok)

SpecClean == InitClean /\ [][NextClean]_vars

\* new WebSocketManager(): the constructor has called connect().
InitWs ==
    /\ ConnInit0
    /\ DiscInit0
    /\ SessInit0
    /\ cleaner = NoCleaner /\ popup = NoPopup /\ available = Targets
    /\ \E throws \in BOOLEAN : wsman = connect(NoWsMan, throws)

WsTimerFires == \E id \in 1..MaxWs, throws \in BOOLEAN : WsTimer(id, throws)

NextWs ==
    \/ \E i \in 1..MaxWs : WsOpen(i)
    \/ \E i \in 1..MaxWs : WsError(i)
    \/ \E i \in 1..MaxWs : WsClose(i)
    \/ WsTimerFires

SpecWs == InitWs /\ [][NextWs]_vars

\* ... where a timeout that is pending fires.
SpecWsFair == SpecWs /\ WF_vars(WsTimerFires)

\* The page has loaded: the ActionManager is constructed and its first poll
\* is under way.
InitPopup ==
    /\ ConnInit0
    /\ DiscInit0
    /\ SessInit0
    /\ cleaner = NoCleaner
    /\ wsman = NoWsMan
    /\ available = Targets
    /\ \E el \in BOOLEAN :
          popup = Popup(el, 0, 0, "none", Never, PopupEvent("load", "none"))

NextPopup ==
    \/ \E kind \in PollKinds : PopupPoll(kind)
    \/ PopupDismiss
    \/ PopupClock

SpecPopup == InitPopup /\ [][NextPopup]_vars

\* connectCDP(url) has made the WebSocket and awaits 'open' or 'error'.
InitAttempt ==
    /\ idCounter = 1
    /\ calls = <<>>
    /\ contexts = <<>>
    /\ regModel = {}
    /\ lastReg = None
    /\ sweep = NoSweep
    /\ attempt = Attempt("c_open", 0, <<>>)
    /\ DiscInit0
    /\ OtherInit0
    /\ sockets = <<Sock("A", "connecting")>>
    /\ socketsLeft = 0
    /\ cdpConnection = 0
    /\ activeTargetId = None
    /\ lastSnapshot = NoSnap
    /\ lastSnapshotHash = NoHash
    /\ discoveredInstances = {}
    /\ cdpRetryCount = 0
    /\ snapshotFailCount = 0
    /\ polling = FALSE
    /\ procs = [p \in Procs |-> Idle]
    /\ sent = FALSE
    /\ httpStatus = 0
    /\ clients = [c \in Clients |-> "none"]
    /\ delivered = {}
    /\ installed = {}
    /\ retired = {}
    /\ switched = 0
    /\ lastFrom = 0
    /\ consecFails = 0
    /\ lastTick = NoTick

NextAttempt ==
    \/ AttemptOpened
    \/ AttemptError
    \/ \E data \in AttemptMessages : AttemptReceive(data)
    \/ \E i \in DOMAIN calls : Timeout(i)
    \/ \E throws \in BOOLEAN : AttemptResume(throws)
    \/ AttemptWaitTick
    \/ EnvClose(1)

SpecAttempt == InitAttempt /\ [][NextAttempt]_vars

\* The timers (the 10 s of each call, the 500 ms of the context wait) fire
\* and a settled await resumes; the target is under no obligation.
SpecAttemptFair ==
    /\ SpecAttempt
    /\ \A i \in 1..AttemptCalls : WF_vars(i \in DOMAIN calls /\ Timeout(i))
    /\ WF_vars(\E throws \in BOOLEAN : AttemptResume(throws))
    /\ WF_vars(AttemptWaitTick)

InitDisc ==
    /\ ConnInit0
    /\ OtherInit0
    /\ SessInit0
    /\ probeResp = [i \in PortIdx |-> PendingAnswer]
    /\ results = [i \in PortIdx |-> NullMatch]
    /\ firstArrived = 0
    /\ discovered = Running
    /\ allTargets = AllRunning

NextDisc ==
    \/ \E i \in PortIdx : \E answer \in ProbeAnswers(i) : ProbeDone(i, answer)
    \/ Select

SpecDisc == InitDisc /\ [][NextDisc]_vars

\* discoverAllTargets() has started its probes.
InitAll ==
    /\ ConnInit0
    /\ OtherInit0
    /\ SessInit0
    /\ probeResp = [i \in PortIdx |-> PendingAnswer]
    /\ results = [i \in PortIdx |-> PortResult(FALSE, <<>>)]
    /\ firstArrived = 0
    /\ discovered = Running
    /\ allTargets = AllRunning

NextAll ==
    \/ \E i \in PortIdx : \E answer \in AllAnswers(i) : ProbeAllDone(i, answer)
    \/ Merge
    \/ SelectOne

SpecAll == InitAll /\ [][NextAll]_vars

\* main() has called initCDP(), which awaits its first discoverCDP().
Init ==
    /\ ConnInit0
    /\ OtherInit0
    /\ DiscInit0
    /\ sockets = <<>>
    /\ socketsLeft = MaxSockets
    /\ cdpConnection = 0
    /\ activeTargetId = None
    /\ lastSnapshot = NoSnap
    /\ lastSnapshotHash = NoHash
    /\ discoveredInstances = {}
    /\ cdpRetryCount = 0
    /\ snapshotFailCount = 0
    /\ polling = FALSE
    /\ procs = [p \in Procs |-> IF p = 1 THEN InInit("main") ELSE Idle]
    /\ sent = FALSE
    /\ httpStatus = 0
    /\ clients = [c \in Clients |-> "none"]
    /\ delivered = {}
    /\ installed = {}
    /\ retired = {}
    /\ switched = 0
    /\ lastFrom = 0
    /\ consecFails = 0
    /\ lastTick = NoTick

Next ==
    \/ \E p \in Procs : InitDiscoverFails(p)
    \/ \E p \in Procs, t \in Targets : InitDiscoverFinds(p, t)
    \/ \E p \in Procs : InitWake(p)
    \/ \E p \in Procs, S \in SUBSET Targets : InitAllDone(p, S)
    \/ \E p \in Procs : ConnectOpened(p)
    \/ \E p \in Procs : ConnectFails(p)
    \/ \E p \in Procs : ConnectReady(p)
    \/ \E p \in Procs, empty \in BOOLEAN : TickFire(p, empty)
    \/ \E p \in Procs, out \in Payloads \cup {NoSnap} : CaptureEval(p, out)
    \/ \E p \in Procs, out \in Payloads \cup {NoSnap} : CaptureLast(p, out)
    \/ \E p \in Procs, tid \in Targets \cup {None} : ReqArrive(p, tid)
    \/ \E p \in Procs, S \in SUBSET Targets : ReqAllDone(p, S)

Spec == Init /\ [][Next]_vars

\* The server after initCDP() has given up: every attempt of main's
\* initCDP() failed, it returned false, and main started the polling.
InitExhausted ==
    /\ ConnInit0
    /\ OtherInit0
    /\ DiscInit0
    /\ sockets = <<>>
    /\ socketsLeft = MaxSockets
    /\ cdpConnection = 0
    /\ activeTargetId = None
    /\ lastSnapshot = NoSnap
    /\ lastSnapshotHash = NoHash
    /\ discoveredInstances = {}
    /\ cdpRetryCount = MAX_CDP_RETRIES
    /\ snapshotFailCount = 0
    /\ polling = TRUE
    /\ procs = [p \in Procs |-> Idle]
    /\ sent = FALSE
    /\ httpStatus = 0
    /\ clients = [c \in Clients |-> "none"]
    /\ delivered = {}
    /\ installed = {}
    /\ retired = {}
    /\ switched = 0
    /\ lastFrom = 0
    /\ consecFails = 0
    /\ lastTick = NoTick

SpecExhausted == InitExhausted /\ [][Next]_vars

\* The running server: main's initCDP() has connected a session to the
\* default target and returned, and the polling interval is installed.
InitLive ==
    /\ ConnInit0
    /\ OtherInit0
    /\ DiscInit0
    /\ sockets = <<Sock("A", "open")>>
    /\ socketsLeft = MaxSockets
    /\ cdpConnection = 1
    /\ activeTargetId = "A"
    /\ lastSnapshot = NoSnap
    /\ lastSnapshotHash = NoHash
    /\ discoveredInstances = Targets
    /\ cdpRetryCount = 0
    /\ snapshotFailCount = 0
    /\ polling = TRUE
    /\ procs = [p \in Procs |-> Idle]
    /\ sent = FALSE
    /\ httpStatus = 0
    /\ clients = [c \in Clients |-> "none"]
    /\ delivered = {}
    /\ installed = {1}
    /\ retired = {}
    /\ switched = 0
    /\ lastFrom = 0
    /\ consecFails = 0
    /\ lastTick = NoTick

\* The payload the captures of the running server return.
LivePayloads == {Snap(<<67>>, "c1")}

\* The running server with a target that may drop the connection; every
\* target stays discoverable, discoverCDP finds the default target.
NextLive ==
    \/ \E s \in DOMAIN sockets : EnvClose(s)
    \/ \E p \in Procs : InitDiscoverFails(p)
    \/ \E p \in Procs : InitDiscoverFinds(p, "A")
    \/ \E p \in Procs : InitWake(p)
    \/ \E p \in Procs : InitAllDone(p, Targets)
    \/ \E p \in Procs : ConnectOpened(p)
    \/ \E p \in Procs : ConnectFails(p)
    \/ \E p \in Procs : ConnectReady(p)
    \/ \E p \in Procs, empty \in BOOLEAN : TickFire(p, empty)
    \/ \E p \in Procs, out \in LivePayloads \cup {NoSnap} : CaptureEval(p, out)
    \/ \E p \in Procs, out \in LivePayloads \cup {NoSnap} : CaptureLast(p, out)
    \/ \E p \in Procs, tid \in Targets : ReqArrive(p, tid)

SpecLive == InitLive /\ [][NextLive]_vars

\* The running server with its session, polling, and browser clients that
\* come and go.
NextCast ==
    \/ \E c \in Clients, state \in {"open", "closing", "none"} : ClientEvent(c, state)
    \/ \E p \in Procs, empty \in BOOLEAN : TickFire(p, empty)
    \/ \E p \in Procs, out \in Payloads \cup {NoSnap} : CaptureEval(p, out)
    \/ \E p \in Procs, out \in Payloads \cup {NoSnap} : CaptureLast(p, out)

SpecCast == InitLive /\ [][NextCast]_vars

\* The running server and its POST /instance and GET /instances handlers,
\* with targets that come and go; every discoverAllTargets returns what the
\* endpoints report when it is awaited.
NextFind ==
    \/ \E S \in SUBSET Targets : EnvTargets(S)
    \/ ListInstances
    \/ \E p \in Procs, tid \in Targets \cup {None} : ReqArrive(p, tid)
    \/ \E p \in Procs : ReqAllDone(p, available)
    \/ \E p \in Procs : ConnectOpened(p)
    \/ \E p \in Procs : ConnectFails(p)
    \/ \E p \in Procs : ConnectReady(p)

InitFind ==
    /\ ConnInit0
    /\ DiscInit0
    /\ cleaner = NoCleaner /\ popup = NoPopup /\ wsman = NoWsMan
    /\ available = Targets
    /\ sockets = <<Sock("A", "open")>>
    /\ socketsLeft = MaxSockets
    /\ cdpConnection = 1
    /\ activeTargetId = "A"
    /\ lastSnapshot = NoSnap
    /\ lastSnapshotHash = NoHash
    /\ discoveredInstances = Targets
    /\ cdpRetryCount = 0
    /\ snapshotFailCount = 0
    /\ polling = TRUE
    /\ procs = [p \in Procs |-> Idle]
    /\ sent = FALSE
    /\ httpStatus = 0
    /\ clients = [c \in Clients |-> "none"]
    /\ delivered = {}
    /\ installed = {1}
    /\ retired = {}
    /\ switched = 0
    /\ lastFrom = 0
    /\ consecFails = 0
    /\ lastTick = NoTick

SpecFind == InitFind /\ [][NextFind]_vars

\* The running server where a statement of a tick's try block may throw.
NextThrow ==
    \/ \E c \in Clients, state \in {"open", "closing", "none"} : ClientEvent(c, state)
    \/ \E p \in Procs, empty \in BOOLEAN : TickFire(p, empty)
    \/ \E p \in Procs, out \in Payloads \cup {NoSnap} : CaptureEval(p, out)
    \/ \E p \in Procs, out \in Payloads \cup {NoSnap} : CaptureLast(p, out)
    \/ \E p \in Procs, out \in Payloads \cup {NoSnap}, inBroadcast, closing \in BOOLEAN :
          TickThrows(p, out, inBroadcast, closing)

SpecThrow == InitLive /\ [][NextThrow]_vars

(***************************************************************************)
(* Claims on the session manager (checked under Spec).                     *)
(***************************************************************************)
OpenSessions == {s \in installed : sockets[s].state = "open"}

\* C1: at most one debugger transport of a session is open: when a session
\* is stored into cdpConnection, the socket of every session stored before
\* has been closed.
C1_OneOpenTransport == Cardinality(OpenSessions) <= 1

\* An initCDP retry loop or a POST /instance switch is running in slot p.
Connecting(p) ==
    procs[p].pc \in {"i_disc", "i_sleep", "i_all", "c_open", "c_setup"}

\* C2: at most one connect / switch sequence is in flight: while an initCDP
\* loop or a POST /instance switch runs, no second one is started.
C2_OneConnectInFlight == Cardinality({p \in Procs : Connecting(p)}) <= 1

\* C3: polling ticks are serialized: no interval callback starts while an
\* earlier one is still awaiting its capture or its connect attempt.
C3_TicksSerialized ==
    Cardinality({p \in Procs : procs[p].kind = "tick"}) <= 1

\* C4: once POST /instance has returned, the session it replaced is never
\* reused: no capture taken on it is stored as lastSnapshot / lastSnapshotHash
\* and none is broadcast.  (sent holds right after a tick has stored and
\* broadcast a capture; retired then holds the sessions whose replacement had
\* returned before that tick completed.)
C4_RetiredSessionNotReused == sent => lastFrom \notin retired

\* What getCDPStatus() reads: connected is !!cdpConnection, and contextCount
\* is the length of the registry of the session in cdpConnection (each
\* connectCDP has its own contexts array), named here by its socket.
StatusSession == cdpConnection

\* C12: a POST /instance made while a session is connected closes that
\* session's socket before it opens the socket to the new target, and once
\* it has completed the status reports the registry of the session it
\* installed (until another switch begins or a tick discards that session).
C12_SwitchClosesThenReportsNew ==
    /\ \A p \in Procs :
          procs[p].kind = "req" /\ procs[p].old # 0 =>
              sockets[procs[p].old].state = "closed"
    /\ switched # 0 => StatusSession = switched

\* C13: reconnection is bounded: the retry counter never exceeds
\* MAX_CDP_RETRIES (it is incremented once per failed attempt, and initCDP
\* starts no attempt once the counter has reached the maximum).
C13_RetryBounded ==
    /\ cdpRetryCount >= 0
    /\ cdpRetryCount <= MAX_CDP_RETRIES

\* C14: retry exhaustion is recoverable.  After initCDP has given up and
\* while no session has been connected since, the polling ticks run without
\* effect (no connect attempt, no capture, no broadcast, no error) and the
\* status is "not connected"; the POST /instance that then connects installs
\* an open session and resets the retry counter to 0.
C14_ExhaustionRecoverable ==
    /\ [](installed = {} =>
            /\ polling
            /\ StatusSession = 0
            /\ cdpRetryCount = MAX_CDP_RETRIES
            /\ \A p \in Procs : procs[p].kind \in {"idle", "req"}
            /\ ~sent /\ lastTick = NoTick)
    /\ [][installed = {} /\ installed' # {} =>
            /\ cdpConnection' \in installed'
            /\ sockets'[cdpConnection'].state = "open"
            /\ cdpRetryCount' = 0
            /\ snapshotFailCount' = 0]_vars

\* C14 witness: after the give-up a POST /instance has connected the only
\* session so far, and a polling tick has captured on it and broadcast.
C14_Witness ==
    /\ installed = {cdpConnection}
    /\ cdpRetryCount = 0
    /\ sent /\ lastFrom = cdpConnection
    /\ lastTick.result = "changed"

\* C15: when the socket of the active session was closed under a tick's
\* capture, the tick discards the session as it completes (so that the next
\* tick reconnects) instead of leaving it active until the failure threshold.
\* (A capture that holds a payload read its response while the socket was
\* open, so a socket found closed at the end was closed during the capture.)
C15_DropForcesDisconnect ==
    [][\A p \in Procs :
          (/\ procs[p].pc = "t_cap"
           /\ procs[p].best # NoSnap
           /\ procs'[p] = Idle
           /\ procs[p].cdp = cdpConnection
           /\ sockets[cdpConnection].state = "closed")
          => cdpConnection' = 0]_vars

\* C16: a tick that finds no session only calls initCDP: it captures
\* nothing, stores nothing and broadcasts nothing, and a capture always runs
\* on a session.  The tick that discards the session after the Nth failure
\* starts no connect itself; the next tick to find no session does.
C16_NoSessionTickOnlyConnects ==
    /\ [](\A p \in Procs :
            /\ procs[p].pc = "t_cap" => procs[p].cdp # 0
            /\ procs[p].kind = "tick" /\ procs[p].pc # "t_cap" =>
                  procs[p].cdp = 0 /\ procs[p].best = NoSnap)
    /\ [][\A p \in Procs :
            procs[p] = Idle /\ procs'[p].kind = "tick" /\ cdpConnection = 0 =>
                /\ procs'[p] = InInit("tick")
                /\ ~sent' /\ lastTick' = NoTick
                /\ UNCHANGED <<lastSnapshot, lastSnapshotHash, snapshotFailCount,
                               sockets, cdpConnection>>]_vars
    /\ [][lastTick'.teardown =>
            /\ cdpConnection' = 0
            /\ sockets' = sockets
            /\ \A p \in Procs : procs'[p] \in {procs[p], Idle}]_vars

\* C16 witness: the session was discarded by the failure threshold (its
\* socket is still open: no switch closed it) and the next tick is in
\* initCDP, discovering.
C16_Witness ==
    /\ installed # {} /\ \A s \in installed : sockets[s].state = "open"
    /\ cdpConnection = 0
    /\ \A p \in Procs : procs[p].kind \in {"idle", "tick"}
    /\ \E p \in Procs : procs[p] = InInit("tick")
    /\ snapshotFailCount = 0 /\ cdpRetryCount = 0

\* C5: with threshold N = MAX_SNAPSHOT_FAILS, a tick tears the session down
\* exactly when its capture is the Nth failed one in a row (in a row: since
\* the last successful capture or the last counter reset by a connect or a
\* switch); a successful capture resets the counter to zero, so N-1 failures,
\* a success and N-1 more failures tear nothing down.
C5_TeardownAtNthFailure ==
    /\ snapshotFailCount = consecFails
    /\ snapshotFailCount < MAX_SNAPSHOT_FAILS
    /\ lastTick.result # "none" =>
          /\ lastTick.teardown = (lastTick.result = "failed" /\ consecFails = 0)
          /\ lastTick.teardown => cdpConnection = 0
          /\ lastTick.result # "failed" => snapshotFailCount = 0

\* C5 witness: the tick that just completed was the Nth failure in a row and
\* discarded the session.
C5_Witness ==
    /\ lastTick = Tick("failed", TRUE)
    /\ cdpConnection = 0
    /\ snapshotFailCount = 0

\* C6: a tick broadcasts a change event if and only if its capture returned
\* a payload whose fingerprint differs from the stored fingerprint; a capture
\* byte-identical to the stored payload is not broadcast again.
C6_BroadcastIffFingerprintChanged ==
    /\ sent = (lastTick.result = "changed")
    /\ lastTick.result = "changed" =>
          /\ lastSnapshotHash = hashString(lastSnapshot.html)
          /\ lastSnapshot # NoSnap
    /\ lastTick.result = "same" => ~sent

\* C6 witness: the tick that just completed captured the payload already
\* stored (by the capture before it) and broadcast nothing.
C6_Witness ==
    /\ lastTick.result = "same"
    /\ ~sent
    /\ lastSnapshot # NoSnap

\* C22: a POST /instance made while main's initCDP() sequence is in flight
\* abandons that sequence: while the session the switch installed is active,
\* the sequence starts no connect and does not store a session of its own
\* over it.  (Until main's initCDP() has returned no tick runs, so a session
\* that is not the sequence's own was installed by a POST /instance.)
C22_SwitchAbandonsConnect ==
    [][\A p \in Procs :
          (/\ procs[p].kind = "main"
           /\ cdpConnection # 0
           /\ cdpConnection # procs[p].sock)
          => /\ ~(procs[p].pc = "i_disc" /\ procs'[p].pc = "c_open")
             /\ ~(procs[p].pc = "c_setup" /\ cdpConnection' = procs[p].sock)]_vars

\* C25: the tick that discards the session at the failure threshold closes
\* the session's socket: no discarded session keeps an open connection.
C25_TeardownClosesTransport ==
    [][lastTick'.teardown /\ cdpConnection # 0 =>
          sockets'[cdpConnection].state = "closed"]_vars

SwitchBegins(p) ==
    /\ procs[p] = Idle \/ procs[p].pc = "r_all"
    /\ procs'[p].kind = "req" /\ procs'[p].pc = "c_open"

\* In this step the POST /instance of activation p answers.
SwitchAnswers(p) == procs[p].kind = "req" /\ procs'[p] = Idle

ContextSet == {contexts[i] : i \in DOMAIN contexts}

\* C8: after any sequence of context-created / destroyed / cleared events,
\* interleaved with unrelated events and call responses, the registry holds
\* exactly the contexts given by the three rules (created adds unless the id
\* is present, destroyed removes the matching id, cleared empties), and no
\* two registry entries share an id.
C8_RegistryFollowsRules ==
    /\ ContextSet = regModel
    /\ \A i, j \in DOMAIN contexts : i # j => contexts[i].id # contexts[j].id

\* C8 witness: a created event for an id already present has just been
\* ignored while the registry holds every context id.
C8_Witness ==
    /\ lastReg = "duplicate"
    /\ Len(contexts) = MaxCtxId

\* C9: call ids on the transport are fresh and strictly increasing, so no
\* two pending calls share an id, and a call whose id was carried by two
\* responses has settled once only.
C9_FreshIdsSettleOnce ==
    /\ \A i, j \in DOMAIN calls : i < j => calls[i].id < calls[j].id
    /\ \A i \in DOMAIN calls : calls[i].id < idCounter
    /\ \A i \in DOMAIN calls :
          calls[i].responses = 2 => calls[i].settles = 1

\* C9 witness: two calls exist and the first has received two responses.
C9_Witness ==
    /\ Len(calls) = 2
    /\ calls[1].responses = 2
    /\ calls[1].state = "resolved"

\* C10: every call is settled exactly once, by its response or its timeout,
\* whichever is first; a settled call has neither handler nor timer
\* registered and an unsettled one has both, so the registered handlers are
\* exactly the unsettled calls and a response after the timeout changes
\* nothing.
C10_SettledOnceAndCleanedUp ==
    \A i \in DOMAIN calls :
        LET c == calls[i] IN
        /\ c.handler = (c.state = "pending")
        /\ c.timer = (c.state = "pending")
        /\ c.settles = (IF c.state = "pending" THEN 0 ELSE 1)
        /\ c.state = "pending" => c.responses = 0
        /\ c.state = "resolved" => c.value \in {"r1", "r2"}
        /\ c.state = "rejected" => c.value \in {"e1", "timeout"}

\* C10 witness: a call timed out and its response arrived afterwards, while
\* another call was settled by its response.
C10_Witness ==
    /\ Len(calls) = 2
    /\ calls[1].value = "timeout" /\ calls[1].responses >= 1
    /\ calls[2].state = "resolved"

\* C17: the status is always well formed: connected tells whether a session
\* is stored; without one (never connected or discarded) the context count
\* is 0 whatever the discarded transport's registry holds, and with one it is
\* the number of contexts the registry rules give for the events received.
C17_StatusWellFormed ==
    /\ getCDPStatus.connected = (cdpConnection # 0)
    /\ getCDPStatus.retryCount = cdpRetryCount
    /\ cdpConnection = 0 =>
          getCDPStatus.connected = FALSE /\ getCDPStatus.contextCount = 0
    /\ cdpConnection # 0 => getCDPStatus.contextCount = Cardinality(regModel)

\* C17 witness: the session was discarded while its registry held contexts,
\* and the status reports none.
C17_Witness ==
    /\ cdpConnection = 0
    /\ Len(contexts) = MaxCtxId
    /\ getCDPStatus.contextCount = 0
    /\ lastReg = "added"

\* C27: an inbound event that is not context-created, context-destroyed or
\* contexts-cleared changes nothing: the registry and every call (pending or
\* settled, with its handler and timer) are as before.
C27_UnknownEventIgnored ==
    [][lastReg # "unrelated" /\ lastReg' = "unrelated" =>
          /\ contexts' = contexts
          /\ regModel' = regModel
          /\ calls' = calls
          /\ idCounter' = idCounter]_vars

\* C27 witness: an unrelated event has just arrived while the registry held
\* every context and two calls were pending.
C27_Witness ==
    /\ lastReg = "unrelated"
    /\ Len(contexts) = MaxCtxId
    /\ Len(calls) = 2
    /\ \A i \in DOMAIN calls : calls[i].state = "pending" /\ calls[i].handler

\* C18: the context set a caller obtained does not change under its
\* iteration: while a sweep is in progress the array it iterates over holds
\* what it held when getContexts() returned it, whatever events arrive.
C18_SweepSeesSnapshot == sweep.active => sweep.seen = sweep.taken

\* C11: with several calls outstanding, responses are matched by id and not
\* by arrival order: a call settled by a response holds the result (resolved)
\* or the error (rejected) of the first response that carried its own id,
\* and a call no response was addressed to is still pending or timed out,
\* whatever events and responses to other calls have arrived.
C11_MatchedById ==
    \A i \in DOMAIN calls :
        LET c == calls[i] IN
        /\ c.responses = 0 => c.state = "pending" \/ c.value = "timeout"
        /\ c.state = "resolved" => c.responses > 0 /\ c.value = c.answer
        /\ c.state = "rejected" /\ c.value # "timeout" =>
              c.responses > 0 /\ c.value = c.answer /\ c.answer = "e1"

\* C11 witness: two calls were outstanding together, the response to the
\* second arrived while the first was still pending, and each call holds the
\* result of its own response.
C11_Witness ==
    /\ Len(calls) = 2
    /\ calls[1].state = "pending" /\ calls[1].responses = 0
    /\ calls[2].state = "resolved" /\ calls[2].value = "r2"
    /\ lastReg = "unrelated"

(***************************************************************************)
(* Claims on connectCDP (checked under SpecAttempt / SpecAttemptFair).     *)
(***************************************************************************)
\* C23: a connection attempt waits for nothing without bound: connectCDP
\* eventually returns or rejects, whatever the target does or fails to do
\* (also when 'open' and 'error' never come), and once the socket is closed
\* every call made on it is eventually settled.
C23_NoUnboundedWait ==
    /\ <>(attempt.pc \in {"ready", "failed"})
    /\ (sockets[1].state = "closed") ~>
           (\A i \in DOMAIN calls : calls[i].state # "pending")

\* The three calls of connectCDP, in order.
SetupCalls == <<"Runtime.enable", "Runtime.disable", "Runtime.enable">>

\* Where connectCDP is, against the calls it has made and how they settled.
SetupInOrder ==
    LET n == Len(attempt.methods) IN
    /\ n = Len(calls) /\ n <= AttemptCalls
    /\ \A i \in 1..n : attempt.methods[i] = SetupCalls[i] /\ calls[i].id = i
    /\ attempt.waitCount \in 0..MaxWaits
    /\ attempt.pc = "c_open" => n = 0
    /\ attempt.pc = "c_enable" => n = 1
    /\ attempt.pc = "c_disable" => n = 2 /\ calls[1].state = "resolved"
    /\ attempt.pc = "c_reenable" =>
          n = 3 /\ calls[1].state = "resolved" /\ calls[2].state = "resolved"
    /\ attempt.pc = "failed" =>
          \/ n = 0 /\ sockets[1].state = "closed"
          \/ n = 1 /\ calls[1].state = "rejected"
    /\ attempt.pc \in {"c_wait", "ready"} =>
          /\ n \in {2, 3}
          /\ calls[1].state = "resolved"
          /\ calls[n].state # "pending"
          /\ n = 2 => calls[2].state = "rejected"
    /\ attempt.pc = "c_wait" => attempt.waitCount < MaxWaits
    /\ attempt.pc # "c_wait" /\ attempt.pc # "ready" => attempt.waitCount = 0

\* C24: after 'open' connectCDP calls Runtime.enable, then Runtime.disable
\* and Runtime.enable again, then waits for a context at most MaxWaits times;
\* it rejects only when the socket failed to open or the first Runtime.enable
\* failed, tolerates a failure in the disable/enable cycle, and returns
\* (ready) with an empty registry only when the wait has run out.
C24_SetupSequence ==
    /\ []SetupInOrder
    /\ [][attempt.pc # "ready" /\ attempt'.pc = "ready" =>
            contexts # <<>> \/ attempt'.waitCount = MaxWaits]_vars
    /\ [][attempt.pc = "c_wait" /\ attempt'.pc = "c_wait" =>
            \/ attempt'.waitCount = attempt.waitCount
            \/ attempt'.waitCount = attempt.waitCount + 1 /\ contexts = <<>>]_vars

\* C24 witness: Runtime.disable failed, no context was reported during the
\* whole wait, and connectCDP returned with an empty registry.
C24_Witness ==
    /\ attempt.pc = "ready"
    /\ contexts = <<>> /\ regModel = {}
    /\ attempt.waitCount = MaxWaits
    /\ Len(calls) = 2 /\ calls[2].state = "rejected"

\* Activation p is a tick whose capture, made on a session that a switch
\* has since replaced, returns in this step.
StaleTickReturns(p) ==
    /\ procs[p].kind = "tick" /\ procs[p].pc = "t_cap"
    /\ procs'[p] = Idle
    /\ cdpConnection # 0
    /\ procs[p].cdp # cdpConnection
    /\ switched = cdpConnection

\* C30: a tick whose capture was outstanding while a switch replaced the
\* session does not discard the session the switch installed: when its
\* capture returns, the current session stays.
C30_TickTearsDownOwnSession ==
    [][\A p \in Procs : StaleTickReturns(p) => cdpConnection' = cdpConnection]_vars

\* The stored payload and the stored fingerprint go together.
StoredConsistent ==
    \/ lastSnapshot = NoSnap /\ lastSnapshotHash = NoHash
    \/ /\ lastSnapshot # NoSnap /\ lastSnapshotHash # NoHash
       /\ lastSnapshotHash = hashString(lastSnapshot.html)

\* C31: in every reachable state the stored payload and the stored
\* fingerprint are both null, or both set with the fingerprint being
\* hashString of the stored payload's html; and a POST /instance that starts
\* connecting clears both in the same step.
C31_StoredPairConsistent ==
    /\ []StoredConsistent
    /\ [][\A p \in Procs :
            SwitchBegins(p) =>
                lastSnapshot' = NoSnap /\ lastSnapshotHash' = NoHash]_vars

\* C31 witness: a switch has retired a session, and a payload is stored
\* with its fingerprint.
C31_Witness ==
    /\ retired # {}
    /\ lastSnapshot # NoSnap
    /\ lastSnapshotHash = hashString(lastSnapshot.html)

\* C32: when a tick's capture returns a payload, the stored payload (what
\* GET /snapshot serves) is that payload after the step, also when it
\* differs from the stored one only in css or has the stored fingerprint.
C32_StoredIsLastCapture ==
    [][\A p \in Procs : \A out \in Payloads \cup {NoSnap} :
          CaptureLast(p, out) /\ BestAfter(p, out) # NoSnap =>
              lastSnapshot' = BestAfter(p, out)]_vars

C34_ActiveIdIsSessionTarget ==
    cdpConnection # 0 => activeTargetId = sockets[cdpConnection].target

\* C34 witness: a switch has installed a session on target B over the
\* start-up session on A, and activeTargetId is B.
C34_Witness ==
    /\ cdpConnection # 0
    /\ switched = cdpConnection
    /\ sockets[cdpConnection].target = "B"
    /\ activeTargetId = "B"
    /\ retired # {}

\* C36: a POST /instance without targetId is answered 400, one whose id is
\* not in the discovered list 404, and the step that answers 400 or 404
\* leaves the session, the sockets, the stored payload and fingerprint,
\* activeTargetId and both counters as they were.
C36_RejectedSwitchChangesNothing ==
    [][/\ httpStatus' \in {400, 404} =>
            UNCHANGED <<cdpConnection, sockets, lastSnapshot, lastSnapshotHash,
                        activeTargetId, snapshotFailCount, cdpRetryCount>>
       /\ \A p \in Procs :
            /\ ReqArrive(p, None) => httpStatus' = 400
            /\ \A tid \in Targets :
                  ReqArrive(p, tid) /\ discoveredInstances # {}
                      /\ tid \notin discoveredInstances => httpStatus' = 404
            /\ \A S \in SUBSET Targets :
                  ReqAllDone(p, S) /\ procs[p].target \notin S => httpStatus' = 404]_vars

\* C36 witness: a request for an unknown target has just been answered 404
\* while a session is active and a payload is stored.
C36_Witness ==
    /\ httpStatus = 404
    /\ cdpConnection # 0
    /\ sockets[cdpConnection].state = "open"
    /\ lastSnapshot # NoSnap
    /\ snapshotFailCount > 0

\* C37: when the connect of a POST /instance fails, the request is answered
\* 500 and the system is left without a session: the socket of the session
\* it replaced is closed, no session is stored, the stored payload and
\* fingerprint are null, and the answering step leaves both counters alone.
C37_FailedSwitchLeavesDisconnected ==
    [][\A p \in Procs :
          procs[p].kind = "req" /\ ConnectFails(p) =>
              /\ httpStatus' = 500
              /\ procs[p].old # 0 => sockets'[procs[p].old].state = "closed"
              /\ cdpConnection' = 0
              /\ lastSnapshot' = NoSnap /\ lastSnapshotHash' = NoHash
              /\ snapshotFailCount' = snapshotFailCount
              /\ cdpRetryCount' = cdpRetryCount]_vars

\* C38: a POST /instance is answered 404 only for an id that is not among
\* the targets the endpoints report when the request is handled, also when
\* the cached list is not empty.
C38_NotFoundOnlyIfNotDiscoverable ==
    [][\A p \in Procs :
          /\ \A tid \in Targets :
                ReqArrive(p, tid) /\ httpStatus' = 404 => tid \notin available
          /\ ReqAllDone(p, available) /\ httpStatus' = 404 =>
                procs[p].target \notin available]_vars

(***************************************************************************)
(* Claims on the client's popup poll (checked under SpecPopup).            *)
(***************************************************************************)
\* The user has not dismissed the warning within the last 60 seconds.
NotDismissedLately ==
    popup.dismissedAt = Never \/ popup.now - popup.dismissedAt >= SnoozeMs

\* C29: on a page that has the warning element, when a poll has just been
\* answered with only a browser-permission dialog and the user has not
\* dismissed the warning within the last 60 seconds, the warning is shown;
\* and a snooze is in force only from a dismissal, for 60 seconds.
C29_BrowserWarningShown ==
    /\ popup.el /\ popup.last = PopupEvent("poll", "browser") /\ NotDismissedLately
         => popup.showing = "browser"
    /\ popup.snoozedUntil # 0
         => popup.dismissedAt # Never
            /\ popup.snoozedUntil = popup.dismissedAt + SnoozeMs

(***************************************************************************)
(* Claims on the client's WebSocketManager (checked under SpecWsFair).     *)
(***************************************************************************)
\* C39: at most one reconnect timeout is pending at any time, whatever
\* open, error and close events arrive, and after every close event a
\* connect() follows (when the timeout fires).
C39_OneTimerAndReconnect ==
    /\ [](Cardinality(wsman.pending) <= 1)
    /\ [](wsman.pending # {} => wsman.reconnectTimer \in wsman.pending)
    /\ wsman.due ~> ~wsman.due

\* C39 witness: two sockets have closed, each close was followed by a
\* connect(), and the third socket is open with no timeout pending.
C39_Witness ==
    /\ Len(wsman.socks) = 3
    /\ wsman.socks[1] = "closed" /\ wsman.socks[2] = "closed"
    /\ wsman.socks[3] = "open"
    /\ ~wsman.due
    /\ wsman.pending = {}

(***************************************************************************)
(* Claims on the upload cleanup (checked under SpecClean).                 *)
(***************************************************************************)
\* The files of the upload folders that still exist.
Existing == {cleaner.dir[k] : k \in {j \in DOMAIN cleaner.dir : j \in cleaner.exists}}

Reported(i) ==
    {t \in {probeResp[i].list[k] : k \in DOMAIN probeResp[i].list} :
        t.app /\ ~t.worker /\ t.url # 0}

\* C19: discoverAllTargets returns every matching target of every endpoint,
\* each with an endpoint that reported it, and no two entries of the result
\* have the same target id, also when several endpoints report the same id.
C19_AllTargetsUniqueById ==
    allTargets.status = "done" =>
        LET list == allTargets.list IN
        /\ \A i \in PortIdx : \A t \in Reported(i) :
              \E k \in DOMAIN list : list[k].id = t.id
        /\ \A k \in DOMAIN list :
              \E i \in PortIdx :
                  /\ list[k].port = PORTS[i]
                  /\ \E t \in Reported(i) : t.id = list[k].id /\ t.url = list[k].url
        /\ \A k, m \in DOMAIN list : k # m => list[k].id # list[m].id

\* The endpoints whose probe failed (connection error, timeout, bad JSON).
FailedProbes == {i \in PortIdx : probeResp[i].state = "err"}

\* Endpoint i yields a match for discoverCDP: the first application page of
\* its list that is not a worker has a debugger URL.
YieldsMatch(i) ==
    LET list == probeResp[i].list IN
    \E k \in DOMAIN list :
        /\ list[k].app /\ ~list[k].worker /\ list[k].url # 0
        /\ \A j \in 1..(k - 1) : ~(list[j].app /\ ~list[j].worker)

\* C20: a probe that fails contributes no match and fails nothing:
\* discoverCDP throws 'CDP not found' exactly when no endpoint yields a match,
\* and discoverAllTargets never fails but returns the targets the other
\* endpoints reported (none of a failed endpoint, the empty list if there
\* are none).
C20_FailedProbeContributesNothing ==
    /\ discovered # Running =>
          /\ (discovered = NotFound) = (\A i \in PortIdx : ~YieldsMatch(i))
          /\ discovered # NotFound =>
                \E i \in PortIdx \ FailedProbes :
                    YieldsMatch(i) /\ discovered.match.port = PORTS[i]
    /\ allTargets.status # "failed"
    /\ allTargets.status = "done" =>
          LET list == allTargets.list IN
          /\ {list[k].id : k \in DOMAIN list} =
                UNION {{t.id : t \in Reported(i)} : i \in PortIdx \ FailedProbes}
          /\ \A k \in DOMAIN list :
                \E i \in PortIdx \ FailedProbes : list[k].port = PORTS[i]

\* C20 witness: the probes of the first two endpoints failed, and both
\* operations returned what a later endpoint reported.
C20_Witness ==
    /\ {1, 2} \subseteq FailedProbes
    /\ discovered.status = "found" /\ discovered.match.port = PORTS[4]
    /\ allTargets.status = "done" /\ Len(allTargets.list) = 2

\* C35: over the same probe answers, when discoverAllTargets returns a
\* non-empty list, discoverCDP finds a target, and that target (its id, on
\* its endpoint) is an entry of the list.
C35_DiscoverOneAgreesWithAll ==
    allTargets.status = "done" /\ allTargets.list # <<>> /\ discovered # Running =>
        /\ discovered.status = "found"
        /\ \E k \in DOMAIN allTargets.list :
              /\ allTargets.list[k].id = discovered.match.id
              /\ allTargets.list[k].port = discovered.match.port

(***************************************************************************)
(* Claims on discovery (checked under SpecDisc).                           *)
(***************************************************************************)
Matched == {i \in PortIdx : checkPort(PORTS[i], probeResp[i]) # NullMatch}

\* C7: whatever the probes answer and in whatever order they complete,
\* discoverCDP returns the match of the earliest endpoint in PORTS order among
\* the endpoints that produced a match, and fails when none did.
C7_PriorityOrderWins ==
    discovered # Running =>
        IF Matched = {} THEN discovered = NotFound
        ELSE \E i \in Matched :
                /\ \A j \in Matched : i <= j
                /\ discovered = Found(checkPort(PORTS[i], probeResp[i]))

\* C7 witness: the probe of the last endpoint was the first to complete with
\* a match, yet the match of an earlier endpoint is returned; and (scenario
\* A is the same run with fewer matches) the returned endpoint is the first
\* in PORTS order that matched.
C7_Witness ==
    /\ discovered.status = "found"
    /\ firstArrived = Len(PORTS)
    /\ discovered.match.port = PORTS[2]
    /\ Matched = {2, Len(PORTS)}

=============================================================================
